---- MODULE Spec2Model ----
(***************************************************************************)
(* A model of next-lens: the Next.js App Router route discovery (segment   *)
(* classifier, tree walker, route builder, fallback resolver, HTTP method  *)
(* extractor) and the route-file mutations (addHttpMethod and              *)
(* removeHttpMethod).                                                      *)
(*                                                                         *)
(* Text is modelled character by character: a string of the program is a   *)
(* sequence of one-character strings, so that the regular expressions and  *)
(* scanners of the source are computed as the source computes them.  A     *)
(* path is a sequence of segments (each a string in this sense), relative  *)
(* to the scan root.                                                       *)
(***************************************************************************)
EXTENDS Integers, Sequences, FiniteSets, TLC

VARIABLES
    fallback,   \* resolveFallbackInfo in progress: the variables of its loop
    walk,       \* findPageFiles in progress: the frames of walk, the directories listed, the results
    links,      \* the symbolic links of the tree: path of the link -> directory it points to
    scan,       \* scanners: the loop variables of findMatchingBrace / findStatementEnd
    lastIndex,  \* extractor: lastIndex of each module-level /g pattern
    calls,      \* mutation engine: the calls of concurrent callers, by caller
    segment,    \* classifier: the segment handed to transformSegment
    token,      \* classifier: the value transformSegment returned
    files,      \* file system under the scan root: file path -> text
    routes,     \* what getApiRoutes last returned: [returned, rows]
    pages,      \* what getPageRoutes last returned: [returned, rows]
    content,    \* mutation engine: the bytes of the route file
    history     \* mutation engine: the calls made so far, oldest first

vars == <<fallback, walk, links, scan, lastIndex, calls, segment, token, files, routes, pages, content, history>>

-----------------------------------------------------------------------------
(* Characters and JavaScript string primitives                             *)

LowerCase == <<"a","b","c","d","e","f","g","h","i","j","k","l","m",
               "n","o","p","q","r","s","t","u","v","w","x","y","z">>
UpperCase == <<"A","B","C","D","E","F","G","H","I","J","K","L","M",
               "N","O","P","Q","R","S","T","U","V","W","X","Y","Z">>
Digits == {"0","1","2","3","4","5","6","7","8","9"}

Range(f) == {f[i] : i \in DOMAIN f}

Letters == Range(LowerCase) \cup Range(UpperCase)

\* \w of a JavaScript regular expression
IsWord(c) == c \in Letters \cup Digits \cup {"_"}

\* \s of a JavaScript regular expression (the characters the texts use)
IsSpace(c) == c \in {" ", "\n", "\t", "\r"}

\* [A-Za-z_$] and [\w$]
IsIdentStart(c) == c \in Letters \cup {"_", "$"}
IsIdentPart(c) == IsWord(c) \/ c = "$"

UpperChar(c) ==
    IF c \in Range(LowerCase)
    THEN UpperCase[CHOOSE i \in DOMAIN LowerCase : LowerCase[i] = c]
    ELSE c

\* String.prototype.toUpperCase
toUpperCase(s) == [i \in DOMAIN s |-> UpperChar(s[i])]

\* String.prototype.slice(from, to) with 0-based, end-exclusive indices
\* given here 1-based and end-inclusive: characters a..b of s
Slice(s, a, b) == IF a > b THEN <<>> ELSE SubSeq(s, a, b)

\* the character at 1-based index i, "" outside the string (undefined in JS)
At(s, i) == IF i >= 1 /\ i <= Len(s) THEN s[i] ELSE ""

\* does the literal lit occur in s at index i
LitAt(s, i, lit) ==
    /\ i >= 1
    /\ i + Len(lit) - 1 <= Len(s)
    /\ \A k \in 1..Len(lit) : s[i + k - 1] = lit[k]

\* the same under the regular expression flag i
LitAtCI(s, i, lit) ==
    /\ i >= 1
    /\ i + Len(lit) - 1 <= Len(s)
    /\ \A k \in 1..Len(lit) : UpperChar(s[i + k - 1]) = UpperChar(lit[k])

startsWith(s, lit) == LitAt(s, 1, lit)
endsWith(s, lit) == Len(s) >= Len(lit) /\ LitAt(s, Len(s) - Len(lit) + 1, lit)

\* \b at the gap before index i
WordBoundary(s, i) == IsWord(At(s, i - 1)) # IsWord(At(s, i))

\* the least and the greatest element of a finite set of positive indices,
\* 0 for the empty set
Least(S) == IF S = {} THEN 0 ELSE CHOOSE j \in S : \A k \in S : j <= k
Greatest(S) == IF S = {} THEN 0 ELSE CHOOSE j \in S : \A k \in S : j >= k

\* the least index in lo..hi that satisfies P, 0 if there is none
First(lo, hi, P(_)) == Least({j \in lo..hi : P(j)})

\* the greatest index in lo..hi that satisfies P, 0 if there is none
Last(lo, hi, P(_)) == Greatest({j \in lo..hi : P(j)})

\* the index at which a greedy run of characters satisfying In, begun at
\* index i, stops: the first index >= i past the end or outside the class
RunEnd(s, i, In(_)) ==
    LET Stop(j) == ~In(s[j])
        Or(j, end) == IF j # 0 THEN j ELSE end
    IN Or(First(i, Len(s), Stop), IF i > Len(s) THEN i ELSE Len(s) + 1)

\* \s* from index i
SkipSpace(s, i) == RunEnd(s, i, IsSpace)

\* [\w$]* from index i
SkipIdent(s, i) == RunEnd(s, i, IsIdentPart)

\* String.prototype.indexOf(c, from): first index >= i holding c, 0 if none
IndexOfChar(s, c, i) ==
    LET Hit(j) == s[j] = c IN First(i, Len(s), Hit)

\* String.prototype.trimEnd and trim
trimEnd(s) ==
    LET Solid(j) == ~IsSpace(s[j]) IN Slice(s, 1, Last(1, Len(s), Solid))

trim(s) ==
    LET trimStart(t) == Slice(t, SkipSpace(t, 1), Len(t)) IN trimStart(trimEnd(s))

\* String.prototype.split(sep) for a one-character separator
RECURSIVE SplitFrom(_, _, _)
SplitFrom(s, sep, from) ==
    LET CutAt(i) == IF i = 0 THEN <<Slice(s, from, Len(s))>>
                    ELSE <<Slice(s, from, i - 1)>> \o SplitFrom(s, sep, i + 1)
    IN CutAt(IndexOfChar(s, sep, from))

Split(s, sep) == SplitFrom(s, sep, 1)

\* Array.prototype.join(sep)
RECURSIVE Join(_, _)
Join(parts, sep) ==
    IF Len(parts) = 0 THEN <<>>
    ELSE IF Len(parts) = 1 THEN parts[1]
    ELSE parts[1] \o sep \o Join(Tail(parts), sep)

\* all orderings of a finite set, as sequences
RECURSIVE Orderings(_)
Orderings(S) ==
    IF S = {} THEN {<<>>}
    ELSE UNION {{<<x>> \o t : t \in Orderings(S \ {x})} : x \in S}

-----------------------------------------------------------------------------
(* Segment classifier: utils.ts                                            *)

\* "." of a regular expression matches anything but a line terminator
NoLineBreak(s) == \A i \in DOMAIN s : s[i] \notin {"\n", "\r"}

\* /^\[\[\.\.\.(.+)]]$/ : the captured name (never empty), <<>> when the
\* expression does not match
MatchOptionalCatchAll(s) ==
    IF startsWith(s, <<"[","[",".",".",".">>) /\ endsWith(s, <<"]","]">>)
       /\ Len(s) >= 8 /\ NoLineBreak(s)
    THEN Slice(s, 6, Len(s) - 2) ELSE <<>>

\* /^\[\.\.\.(.+)]$/
MatchCatchAll(s) ==
    IF startsWith(s, <<"[",".",".",".">>) /\ endsWith(s, <<"]">>)
       /\ Len(s) >= 6 /\ NoLineBreak(s)
    THEN Slice(s, 5, Len(s) - 1) ELSE <<>>

\* /^\[(.+)]$/
MatchDynamic(s) ==
    IF startsWith(s, <<"[">>) /\ endsWith(s, <<"]">>)
       /\ Len(s) >= 3 /\ NoLineBreak(s)
    THEN Slice(s, 2, Len(s) - 1) ELSE <<>>

\* the rules tried in the wrong order: the single-bracket rule first
transformSegmentDynamicFirst(s) ==
    IF MatchDynamic(s) # <<>>
    THEN <<":">> \o MatchDynamic(s)
    ELSE IF MatchCatchAll(s) # <<>>
    THEN <<":">> \o MatchCatchAll(s) \o <<"*">>
    ELSE IF MatchOptionalCatchAll(s) # <<>>
    THEN <<":">> \o MatchOptionalCatchAll(s) \o <<"*","?">>
    ELSE s

transformSegment(s) ==
    IF MatchOptionalCatchAll(s) # <<>>
    THEN <<":">> \o MatchOptionalCatchAll(s) \o <<"*","?">>
    ELSE IF MatchCatchAll(s) # <<>>
    THEN <<":">> \o MatchCatchAll(s) \o <<"*">>
    ELSE IF MatchDynamic(s) # <<>>
    THEN <<":">> \o MatchDynamic(s)
    ELSE s

-----------------------------------------------------------------------------
(* HTTP method extractor: api-routes.ts                                    *)

GET == <<"G","E","T">>
HEAD == <<"H","E","A","D">>
OPTIONS == <<"O","P","T","I","O","N","S">>
POST == <<"P","O","S","T">>
PUT == <<"P","U","T">>
PATCH == <<"P","A","T","C","H">>
DELETE == <<"D","E","L","E","T","E">>

HTTP_METHODS == {GET, HEAD, OPTIONS, POST, PUT, PATCH, DELETE}

METHOD_ORDER == <<GET, HEAD, OPTIONS, POST, PUT, PATCH, DELETE>>

kwExport == <<"e","x","p","o","r","t">>
kwAsync == <<"a","s","y","n","c">>
kwFunction == <<"f","u","n","c","t","i","o","n">>
kwConst == <<"c","o","n","s","t">>
kwLet == <<"l","e","t">>
kwVar == <<"v","a","r">>
kwAs == <<"a","s">>

\* a failed match of a regular expression; a match has end > 0, the index
\* just past the matched text (lastIndex), start, and cap, the capture
NoMatch == [start |-> 0, end |-> 0, cap |-> <<>>]

\* first index >= i holding a line terminator, or Len(s) + 1: where .*$ ends
LineEnd(s, i) ==
    LET Brk(j) == s[j] \in {"\n", "\r"}
        Or(j, end) == IF j # 0 THEN j ELSE end
    IN Or(First(i, Len(s), Brk), Len(s) + 1)

\* first index >= i at which lit occurs, 0 if none
IndexOf(s, lit, i) ==
    LET Hit(j) == LitAt(s, j, lit) IN First(i, Len(s), Hit)

\* a match of COMMENT_BLOCK_PATTERN /\/\*[\s\S]*?\*\//g starts at index j
BlockCommentAt(s, j) ==
    LitAt(s, j, <<"/","*">>) /\ IndexOf(s, <<"*","/">>, j + 2) # 0

\* source.replace(COMMENT_BLOCK_PATTERN, ' '), from index i on
RECURSIVE StripBlockComments(_, _)
StripBlockComments(s, i) ==
    LET Hit(j) == BlockCommentAt(s, j)
        open == First(i, Len(s), Hit)
    IN IF open = 0 THEN Slice(s, i, Len(s))
       ELSE Slice(s, i, open - 1) \o <<" ">>
            \o StripBlockComments(s, IndexOf(s, <<"*","/">>, open + 2) + 2)

\* ^ under the flag m: the gap before index i starts a line
AtLineStart(s, i) == i = 1 \/ At(s, i - 1) \in {"\n", "\r"}

\* a match of COMMENT_LINE_PATTERN /(^|[^\S\r\n])\/\/.*$/gm starts at j:
\* either j starts a line and holds "//", or j holds a blank before "//"
LineCommentAt(s, j) ==
    \/ AtLineStart(s, j) /\ LitAt(s, j, <<"/","/">>)
    \/ s[j] \in {" ", "\t"} /\ LitAt(s, j + 1, <<"/","/">>)

\* .replace(COMMENT_LINE_PATTERN, (_, prefix) => prefix), from index i on
RECURSIVE StripLineComments(_, _)
StripLineComments(s, i) ==
    LET Hit(j) == LineCommentAt(s, j)
        start == First(i, Len(s), Hit)
        prefix == IF LitAt(s, start, <<"/","/">>) /\ AtLineStart(s, start)
                  THEN <<>> ELSE <<s[start]>>
    IN IF start = 0 THEN Slice(s, i, Len(s))
       ELSE Slice(s, i, start - 1) \o prefix
            \o StripLineComments(s, LineEnd(s, start))

stripComments(source) ==
    StripLineComments(StripBlockComments(source, 1), 1)

\* (?:const|let|var) at index i: the index just past the keyword, 0 if none
DeclKeywordEnd(s, i) ==
    IF LitAt(s, i, kwConst) THEN i + 5
    ELSE IF LitAt(s, i, kwLet) THEN i + 3
    ELSE IF LitAt(s, i, kwVar) THEN i + 3
    ELSE 0

\* FUNCTION_EXPORT_PATTERN at index i:
\* /\bexport\s+(?:async\s+)?function\s+([A-Za-z_$][\w$]*)/
FunctionExportAt(s, i) ==
    IF ~(WordBoundary(s, i) /\ LitAt(s, i, kwExport)) THEN NoMatch
    ELSE LET a == i + 6
             b == SkipSpace(s, a)
             c == IF LitAt(s, b, kwAsync) /\ IsSpace(At(s, b + 5))
                  THEN SkipSpace(s, b + 5) ELSE b
             d == c + 8
             e == SkipSpace(s, d)
         IN IF b > a /\ LitAt(s, c, kwFunction) /\ e > d
               /\ IsIdentStart(At(s, e))
            THEN [start |-> i, end |-> SkipIdent(s, e),
                  cap |-> Slice(s, e, SkipIdent(s, e) - 1)]
            ELSE NoMatch

\* VARIABLE_EXPORT_PATTERN at index i:
\* /\bexport\s+(?:const|let|var)\s+([A-Za-z_$][\w$]*)/
VariableExportAt(s, i) ==
    IF ~(WordBoundary(s, i) /\ LitAt(s, i, kwExport)) THEN NoMatch
    ELSE LET a == i + 6
             b == SkipSpace(s, a)
             d == DeclKeywordEnd(s, b)
             e == SkipSpace(s, d)
         IN IF b > a /\ d # 0 /\ e > d /\ IsIdentStart(At(s, e))
            THEN [start |-> i, end |-> SkipIdent(s, e),
                  cap |-> Slice(s, e, SkipIdent(s, e) - 1)]
            ELSE NoMatch

\* DESTRUCTURED_EXPORT_PATTERN at index i:
\* /\bexport\s+(?:const|let|var)\s*{\s*([^}]+)\s*}\s*=/
\* [^}]+ runs to the first "}" and needs one character; the \s* before it
\* gives back its last character when everything between the braces is space
DestructuredExportAt(s, i) ==
    IF ~(WordBoundary(s, i) /\ LitAt(s, i, kwExport)) THEN NoMatch
    ELSE LET a == i + 6
             b == SkipSpace(s, a)
             d == DeclKeywordEnd(s, b)
             open == SkipSpace(s, d)
             close == IndexOfChar(s, "}", open + 1)
             first == IF SkipSpace(s, open + 1) < close
                      THEN SkipSpace(s, open + 1) ELSE close - 1
             eq == SkipSpace(s, close + 1)
         IN IF b > a /\ d # 0 /\ At(s, open) = "{" /\ close > open + 1
               /\ At(s, eq) = "="
            THEN [start |-> i, end |-> eq + 1,
                  cap |-> Slice(s, first, close - 1)]
            ELSE NoMatch

\* NAMED_EXPORT_PATTERN at index i: /\bexport\s*{([^}]+)}/
NamedExportAt(s, i) ==
    IF ~(WordBoundary(s, i) /\ LitAt(s, i, kwExport)) THEN NoMatch
    ELSE LET open == SkipSpace(s, i + 6)
             close == IndexOfChar(s, "}", open + 1)
         IN IF At(s, open) = "{" /\ close > open + 1
            THEN [start |-> i, end |-> close + 1,
                  cap |-> Slice(s, open + 1, close - 1)]
            ELSE NoMatch

PatternAt(pattern, s, i) ==
    CASE pattern = "function" -> FunctionExportAt(s, i)
      [] pattern = "variable" -> VariableExportAt(s, i)
      [] pattern = "destructured" -> DestructuredExportAt(s, i)
      [] pattern = "named" -> NamedExportAt(s, i)

\* a regular expression searches from lastIndex on: of the matches tried at
\* the successive indices, the first that did not fail, NoMatch for null
FirstMatch(tried) ==
    LET Found(j) == IF j = 0 THEN NoMatch ELSE tried[j]
    IN Found(Least({j \in DOMAIN tried : tried[j].end # 0}))

\* PATTERN.exec(s) with lastIndex at i
Exec(pattern, s, i) ==
    FirstMatch([j \in i..Len(s) |-> PatternAt(pattern, s, j)])

\* while ((match = PATTERN.exec(sanitized))): the captures of the successive
\* matches of a global pattern, each search starting at the last match's end
RECURSIVE ExecAll(_, _, _)
ExecAll(pattern, s, i) ==
    LET Captures(match) ==
            IF match.end = 0 THEN <<>>
            ELSE <<match.cap>> \o ExecAll(pattern, s, match.end)
    IN Captures(Exec(pattern, s, i))

\* the entry's first identifier, whether or not an alias follows it
ExportedNameOriginal(entry) ==
    IF ~IsIdentStart(At(entry, 1)) THEN <<>>
    ELSE LET a == SkipIdent(entry, 1)
             b == SkipSpace(entry, a)
             c == SkipSpace(entry, b + 2)
         IN IF a > Len(entry) THEN entry
            ELSE IF b > a /\ LitAtCI(entry, b, kwAs) /\ c > b + 2
                    /\ IsIdentStart(At(entry, c))
                    /\ SkipIdent(entry, c) > Len(entry)
                 THEN Slice(entry, 1, a - 1)
            ELSE <<>>

\* entry.match(/^([A-Za-z_$][\w$]*)(?:\s+as\s+([A-Za-z_$][\w$]*))?$/i):
\* alias ?? original, or the empty string when the entry does not match
ExportedName(entry) ==
    IF ~IsIdentStart(At(entry, 1)) THEN <<>>
    ELSE LET a == SkipIdent(entry, 1)
             b == SkipSpace(entry, a)
             c == SkipSpace(entry, b + 2)
         IN IF a > Len(entry) THEN entry
            ELSE IF b > a /\ LitAtCI(entry, b, kwAs) /\ c > b + 2
                    /\ IsIdentStart(At(entry, c))
                    /\ SkipIdent(entry, c) > Len(entry)
                 THEN Slice(entry, c, Len(entry))
            ELSE <<>>

NonEmpty(s) == s # <<>>

RECURSIVE MapTrim(_)
MapTrim(parts) ==
    IF Len(parts) = 0 THEN <<>>
    ELSE <<trim(parts[1])>> \o MapTrim(Tail(parts))

RECURSIVE MapExportedName(_)
MapExportedName(entries) ==
    IF Len(entries) = 0 THEN <<>>
    ELSE <<ExportedName(entries[1])>> \o MapExportedName(Tail(entries))

extractExportedNames(list) ==
    SelectSeq(MapExportedName(SelectSeq(MapTrim(Split(list, ",")), NonEmpty)),
              NonEmpty)

RECURSIVE Flatten(_)
Flatten(lists) ==
    IF Len(lists) = 0 THEN <<>> ELSE lists[1] \o Flatten(Tail(lists))

RECURSIVE MapExtractExportedNames(_)
MapExtractExportedNames(caps) ==
    IF Len(caps) = 0 THEN <<>>
    ELSE <<extractExportedNames(caps[1])>>
         \o MapExtractExportedNames(Tail(caps))

\* register(name) for each name in turn: methods is a Set, which keeps
\* insertion order and ignores a value it already holds
RECURSIVE Register(_, _)
Register(methods, names) ==
    IF Len(names) = 0 THEN methods
    ELSE LET upper == toUpperCase(names[1])
         IN Register(IF upper \in HTTP_METHODS /\ upper \notin Range(methods)
                     THEN Append(methods, upper) ELSE methods,
                     Tail(names))

\* the names the loop of a pattern registers: the captures themselves, or
\* for the two list patterns the names extractExportedNames finds in them
RegisteredNames(pattern, caps) ==
    IF pattern \in {"function", "variable"} THEN caps
    ELSE Flatten(MapExtractExportedNames(caps))

\* the four while loops of extractHttpMethods, one pattern after the other
RECURSIVE RegisterMatches(_, _, _)
RegisterMatches(methods, patterns, sanitized) ==
    IF Len(patterns) = 0 THEN methods
    ELSE RegisterMatches(
             Register(methods,
                      RegisteredNames(patterns[1],
                                      ExecAll(patterns[1], sanitized, 1))),
             Tail(patterns), sanitized)

\* extractHttpMethods, given the text readFile returned
extractHttpMethods(source) ==
    RegisterMatches(<<>>, <<"function", "variable", "destructured", "named">>,
                    stripComments(source))

\* the four while loops when each pattern starts its search at its own
\* lastIndex, the state a /g pattern keeps between calls of exec
RECURSIVE RegisterMatchesFrom(_, _, _, _)
RegisterMatchesFrom(methods, patterns, sanitized, indexes) ==
    IF Len(patterns) = 0 THEN methods
    ELSE RegisterMatchesFrom(
             Register(methods,
                      RegisteredNames(patterns[1],
                                      ExecAll(patterns[1], sanitized,
                                              indexes[patterns[1]] + 1))),
             Tail(patterns), sanitized, indexes)

ExportPatterns == <<"function", "variable", "destructured", "named">>

\* extractHttpMethods when the patterns are found with these lastIndex values
extractHttpMethodsFrom(source, indexes) ==
    RegisterMatchesFrom(<<>>, ExportPatterns, stripComments(source), indexes)

\* lastIndex when the pattern is left behind its first match
LastIndexAfterFirstMatch(pattern, sanitized, from) ==
    LET Behind(match) == IF match.end = 0 THEN 0 ELSE match.end - 1
    IN Behind(Exec(pattern, sanitized, from + 1))

\* lastIndex of a pattern once its while loop is over: the loop ends with
\* the exec that returns null, and that exec sets lastIndex to 0
LastIndexAfterLoop(pattern, sanitized, from) == 0

\* Array.prototype.indexOf on METHOD_ORDER, 0-based, -1 when absent
MethodIndex(m) ==
    IF m \in Range(METHOD_ORDER)
    THEN (CHOOSE i \in DOMAIN METHOD_ORDER : METHOD_ORDER[i] = m) - 1
    ELSE -1

\* String.prototype.localeCompare under the default collation: punctuation
\* sorts before digits, digits before letters, and letters compare without
\* regard to case first; only then does lower case sort before upper case
Collation == <<"_","-",",",";",":","!","?",".","'","\"","(",")","[","]",
               "{","}","@","*","/","\\","&","#","%","^","+","<","=",
               ">","|","~","$","0","1","2","3","4","5","6","7","8","9">>
             \o LowerCase

PrimaryWeight(c) ==
    LET u == IF c \in Range(UpperCase)
             THEN LowerCase[CHOOSE i \in DOMAIN UpperCase : UpperCase[i] = c]
             ELSE c
    IN IF u \in Range(Collation)
       THEN CHOOSE i \in DOMAIN Collation : Collation[i] = u
       ELSE 0

TertiaryWeight(c) == IF c \in Range(UpperCase) THEN 1 ELSE 0

\* lexicographic comparison of the weights W of a and b: -1, 0 or 1
CompareBy(a, b, W(_)) ==
    LET n == IF Len(a) < Len(b) THEN Len(a) ELSE Len(b)
        Differ(j) == W(a[j]) # W(b[j])
        d == First(1, n, Differ)
    IN IF d # 0 THEN (IF W(a[d]) < W(b[d]) THEN -1 ELSE 1)
       ELSE IF Len(a) < Len(b) THEN -1
       ELSE IF Len(a) > Len(b) THEN 1
       ELSE 0

\* the first comparison decides unless it finds the two equal
OrElse(first, second) == IF first # 0 THEN first ELSE second

localeCompare(a, b) ==
    OrElse(CompareBy(a, b, PrimaryWeight), CompareBy(a, b, TertiaryWeight))

\* the comparators handed to Array.prototype.sort
CompareMethods(a, b) ==
    LET ByIndex(indexA, indexB) ==
            IF indexA = -1 /\ indexB = -1 THEN localeCompare(a, b)
            ELSE IF indexA = -1 THEN 1
            ELSE IF indexB = -1 THEN -1
            ELSE indexA - indexB
    IN ByIndex(MethodIndex(a), MethodIndex(b))

CompareRoutes(a, b) ==
    OrElse(localeCompare(a.path, b.path),
           localeCompare(Join(a.methods, <<",">>), Join(b.methods, <<",">>)))

ComparePages(a, b) ==
    OrElse(localeCompare(a.path, b.path), localeCompare(a.file, b.file))

Compare(by, a, b) ==
    CASE by = "methods" -> CompareMethods(a, b)
      [] by = "routes" -> CompareRoutes(a, b)
      [] by = "pages" -> ComparePages(a, b)

\* Array.prototype.sort(compare): a stable sort, here by insertion: x goes
\* behind every element already placed that does not compare greater
InsertSorted(by, sorted, x) ==
    LET InsertAt(at) ==
            IF at = 0 THEN Append(sorted, x)
            ELSE SubSeq(sorted, 1, at - 1) \o <<x>>
                 \o SubSeq(sorted, at, Len(sorted))
    IN InsertAt(Least({j \in DOMAIN sorted : Compare(by, sorted[j], x) > 0}))

RECURSIVE SortFrom(_, _, _)
SortFrom(by, sorted, rest) ==
    IF Len(rest) = 0 THEN sorted
    ELSE SortFrom(by, InsertSorted(by, sorted, rest[1]), Tail(rest))

Sort(by, xs) == SortFrom(by, <<>>, xs)

\* the methods left in the order the extractor registered them
sortMethodsUnsorted(methods) == methods

sortMethods(methods) == Sort("methods", methods)

-----------------------------------------------------------------------------
(* Paths and the file system                                               *)

app == <<"a","p","p">>
api == <<"a","p","i">>

SKIP_DIRECTORIES == {
    <<"n","o","d","e","_","m","o","d","u","l","e","s">>,
    <<".","g","i","t">>,
    <<".","n","e","x","t">>,
    <<"d","i","s","t">>,
    <<"b","u","i","l","d">>,
    <<".","t","u","r","b","o">>,
    <<".","v","e","r","c","e","l">>,
    <<"o","u","t">>,
    <<"c","o","v","e","r","a","g","e">>}

ROUTE_BASENAME == <<"r","o","u","t","e">>
ROUTE_EXTENSIONS == {<<".","t","s">>, <<".","t","s","x">>, <<".","j","s">>, <<".","j","s","x">>}

PAGE_BASENAME == <<"p","a","g","e">>
\* a JavaScript Set iterates in insertion order
PAGE_EXTENSIONS == <<<<".","t","s">>,
                     <<".","t","s","x">>,
                     <<".","j","s">>,
                     <<".","j","s","x">>,
                     <<".","m","d","x">>,
                     <<".","m","d">>,
                     <<".","m","j","s">>,
                     <<".","c","j","s">>>>

FALLBACK_EXTENSIONS == PAGE_EXTENSIONS

\* path.parse(fileName).name and .ext of a name without separators: the
\* extension starts at the last dot unless that dot starts the name
ParsedExt(fileName) ==
    LET Dot(j) == fileName[j] = "."
        dot == Last(1, Len(fileName), Dot)
    IN IF dot <= 1 THEN <<>> ELSE Slice(fileName, dot, Len(fileName))

ParsedName(fileName) ==
    Slice(fileName, 1, Len(fileName) - Len(ParsedExt(fileName)))

isRouteFile(fileName) ==
    ParsedName(fileName) = ROUTE_BASENAME
    /\ ParsedExt(fileName) \in ROUTE_EXTENSIONS

isPageFile(fileName) ==
    ParsedName(fileName) = PAGE_BASENAME
    /\ ParsedExt(fileName) \in Range(PAGE_EXTENSIONS)

\* a path is the sequence of its segments below the scan root
IsPrefix(p, q) == Len(p) <= Len(q) /\ SubSeq(q, 1, Len(p)) = p

\* path.dirname; the scan root stands for a directory that is its own parent
dirname(p) == IF Len(p) = 0 THEN p ELSE SubSeq(p, 1, Len(p) - 1)

\* fs.stat(p).isFile() and isDirectory() in the tree fs (file path -> text)
IsFile(fs, p) == p \in DOMAIN fs
IsDirectory(fs, p) == \E f \in DOMAIN fs : IsPrefix(p, f) /\ f # p

\* the names fs.readdir(current) returns, in no particular order
Entries(fs, current) ==
    {f[Len(current) + 1] : f \in {g \in DOMAIN fs : IsPrefix(current, g)
                                                     /\ g # current}}

\* findRouteFiles / findPageFiles: the results array after walk(current),
\* one outcome for each order in which readdir may list each directory
RECURSIVE Walk(_, _, _), WalkEntries(_, _, _, _)
Walk(fs, wanted, current) ==
    UNION {WalkEntries(fs, wanted, current, order) :
               order \in Orderings(Entries(fs, current))}

\* the loop of walk when only the directories of the scan root are tested
\* against the skip set
RECURSIVE WalkEntriesSkipAtRoot(_, _, _, _)
WalkEntriesSkipAtRoot(fs, wanted, current, order) ==
    IF Len(order) = 0 THEN {<<>>}
    ELSE LET name == order[1]
             entryPath == Append(current, name)
             found == IF IsDirectory(fs, entryPath)
                      THEN IF Len(current) = 0 /\ name \in SKIP_DIRECTORIES
                           THEN {<<>>}
                           ELSE Walk(fs, wanted, entryPath)
                      ELSE IF ~IsFile(fs, entryPath) THEN {<<>>}
                      ELSE IF wanted = "route" /\ ~isRouteFile(name) THEN {<<>>}
                      ELSE IF wanted = "page" /\ ~isPageFile(name) THEN {<<>>}
                      ELSE {<<entryPath>>}
         IN {h \o t : h \in found,
                      t \in WalkEntriesSkipAtRoot(fs, wanted, current,
                                                  Tail(order))}

WalkEntries(fs, wanted, current, order) ==
    IF Len(order) = 0 THEN {<<>>}
    ELSE LET name == order[1]
             entryPath == Append(current, name)
             found == IF IsDirectory(fs, entryPath)
                      THEN IF name \in SKIP_DIRECTORIES THEN {<<>>}
                           ELSE Walk(fs, wanted, entryPath)
                      ELSE IF ~IsFile(fs, entryPath) THEN {<<>>}
                      ELSE IF wanted = "route" /\ ~isRouteFile(name) THEN {<<>>}
                      ELSE IF wanted = "page" /\ ~isPageFile(name) THEN {<<>>}
                      ELSE {<<entryPath>>}
         IN {h \o t : h \in found,
                      t \in WalkEntries(fs, wanted, current, Tail(order))}

findRouteFiles(fs) == Walk(fs, "route", <<>>)
findPageFiles(fs) == Walk(fs, "page", <<>>)

-----------------------------------------------------------------------------
(* Route builder                                                           *)

\* segments.indexOf('app'): the leftmost app segment
AppIndexFirst(segments) ==
    LET IsApp(j) == segments[j] = app IN First(1, Len(segments), IsApp)

\* segments.lastIndexOf('app'), 1-based; 0 when there is none
AppIndex(segments) ==
    LET IsApp(j) == segments[j] = app IN Last(1, Len(segments), IsApp)

\* a filter that lets slot segments through
shouldIncludeSegmentGroupsOnly(seg) ==
    IF Len(seg) = 0 THEN FALSE
    ELSE IF startsWith(seg, <<"(">>) /\ endsWith(seg, <<")">>) THEN FALSE
    ELSE TRUE

shouldIncludeSegment(seg) ==
    IF Len(seg) = 0 THEN FALSE
    ELSE IF startsWith(seg, <<"(">>) /\ endsWith(seg, <<")">>) THEN FALSE
    ELSE IF startsWith(seg, <<"@">>) THEN FALSE
    ELSE TRUE

RECURSIVE MapTransformSegment(_)
MapTransformSegment(segs) ==
    IF Len(segs) = 0 THEN <<>>
    ELSE <<transformSegment(segs[1])>> \o MapTransformSegment(Tail(segs))

\* relativePath.split(path.sep).join('/')
NormalizedFile(segments) == Join(segments, <<"/">>)

\* deriveRouteMeta without the test of the first retained segment
deriveRouteMetaAnyFirst(filePath) ==
    LET appIndex == AppIndex(filePath)
        routeSegments == Slice(filePath, appIndex + 1, Len(filePath) - 1)
        cleaned == SelectSeq(routeSegments, shouldIncludeSegment)
    IN IF appIndex = 0 THEN <<>>
       ELSE <<[file |-> NormalizedFile(filePath),
               methods |-> <<>>,
               path |-> <<"/">> \o Join(MapTransformSegment(cleaned), <<"/">>)]>>

\* deriveRouteMeta: the row without its methods in a one-element sequence,
\* the empty sequence for null
deriveRouteMeta(filePath) ==
    LET appIndex == AppIndex(filePath)
        routeSegments == Slice(filePath, appIndex + 1, Len(filePath) - 1)
        Kept(seg) ==
            IF Len(seg) = 0 THEN FALSE
            ELSE IF startsWith(seg, <<"(">>) /\ endsWith(seg, <<")">>) THEN FALSE
            ELSE IF startsWith(seg, <<"@">>) THEN FALSE
            ELSE TRUE
        cleaned == SelectSeq(routeSegments, Kept)
    IN IF appIndex = 0 THEN <<>>
       ELSE IF Len(cleaned) = 0 THEN <<>>
       ELSE IF cleaned[1] # api THEN <<>>
       ELSE <<[file |-> NormalizedFile(filePath),
               methods |-> <<>>,
               path |-> <<"/">> \o Join(MapTransformSegment(cleaned), <<"/">>)]>>

\* the loop of getApiRoutes over routeFiles, before the sort
\* the body of that loop: what one route file adds to routes
RouteOf(routeMeta, methods) ==
    IF Len(routeMeta) = 0 THEN <<>>
    ELSE IF Len(methods) = 0 THEN <<>>
    ELSE <<[routeMeta[1] EXCEPT !.methods = sortMethods(methods)]>>

RECURSIVE CollectRoutes(_, _)
CollectRoutes(fs, routeFiles) ==
    IF Len(routeFiles) = 0 THEN <<>>
    ELSE RouteOf(deriveRouteMeta(routeFiles[1]),
                 extractHttpMethods(fs[routeFiles[1]]))
         \o CollectRoutes(fs, Tail(routeFiles))

\* getApiRoutes when the walker found routeFiles in this order
getApiRoutes(fs, routeFiles) == Sort("routes", CollectRoutes(fs, routeFiles))

-----------------------------------------------------------------------------
(* Fallback resolver and view routes: page-routes.ts                       *)

loading == <<"l","o","a","d","i","n","g">>
error == <<"e","r","r","o","r">>

\* findFallbackFile taking the last candidate that exists
findFallbackFileLast(fs, directory, basename) ==
    LET Candidate(j) == Append(directory, basename \o FALLBACK_EXTENSIONS[j])
        Exists(j) == IsFile(fs, Candidate(j))
        hit == Last(1, Len(FALLBACK_EXTENSIONS), Exists)
    IN IF hit = 0 THEN <<>> ELSE <<Candidate(hit)>>

\* findFallbackFile: the first candidate, in the order of the extensions,
\* that is a regular file, in a one-element sequence; empty for null
findFallbackFile(fs, directory, basename) ==
    LET Candidate(j) == Append(directory, basename \o FALLBACK_EXTENSIONS[j])
        Exists(j) == IsFile(fs, Candidate(j))
        hit == First(1, Len(FALLBACK_EXTENSIONS), Exists)
    IN IF hit = 0 THEN <<>> ELSE <<Candidate(hit)>>

\* path.relative(from, to) for two paths below the scan root
relative(from, to) ==
    LET n == IF Len(from) < Len(to) THEN Len(from) ELSE Len(to)
        Differ(j) == from[j] # to[j]
        d == First(1, n, Differ)
        common == IF d = 0 THEN n ELSE d - 1
        ups == [j \in 1..(Len(from) - common) |-> <<".", ".">>]
    IN Join(ups \o Slice(to, common + 1, Len(to)), <<"/">>)

isWithinAppRoot(directory, appRootPath) ==
    LET Within(rel) ==
            IF rel = <<>> THEN TRUE
            ELSE IF startsWith(rel, <<".", ".">>) THEN FALSE
            ELSE ~startsWith(rel, <<"/">>)
    IN Within(relative(appRootPath, directory))

pathsEqual(a, b) == a = b

\* the while loop entered with the scan root for the routing root: it walks
\* up until it is at the top of the scanned tree
RECURSIVE ResolveFromToScanRoot(_, _, _, _, _)
ResolveFromToScanRoot(fs, current, isFirst, basename, appRootPath) ==
    IF findFallbackFile(fs, current, basename) # <<>>
    THEN [status |-> IF isFirst THEN "co-located" ELSE "inherited",
          path |-> NormalizedFile(findFallbackFile(fs, current, basename)[1])]
    ELSE IF pathsEqual(dirname(current), current)
    THEN [status |-> "missing", path |-> <<>>]
    ELSE ResolveFromToScanRoot(fs, dirname(current), FALSE, basename,
                               appRootPath)

\* the while loop of resolveFallbackInfo, entered with current and isFirst
RECURSIVE ResolveFrom(_, _, _, _, _)
ResolveFrom(fs, current, isFirst, basename, appRootPath) ==
    IF ~isWithinAppRoot(current, appRootPath)
    THEN [status |-> "missing", path |-> <<>>]
    ELSE LET Resolve(found) ==
                 IF found # <<>>
                 THEN [status |-> IF isFirst THEN "co-located" ELSE "inherited",
                       path |-> NormalizedFile(found[1])]
                 ELSE IF pathsEqual(current, appRootPath)
                 THEN [status |-> "missing", path |-> <<>>]
                 ELSE IF pathsEqual(dirname(current), current)
                 THEN [status |-> "missing", path |-> <<>>]
                 ELSE ResolveFrom(fs, dirname(current), FALSE, basename,
                                  appRootPath)
         IN Resolve(findFallbackFile(fs, current, basename))

resolveFallbackInfo(fs, directory, basename, appRootPath) ==
    ResolveFrom(fs, directory, TRUE, basename, appRootPath)

\* derivePageMeta: the row in a one-element sequence, empty for null
derivePageMeta(fs, filePath) ==
    LET appIndex == AppIndex(filePath)
        routeSegments == Slice(filePath, appIndex + 1, Len(filePath))
        directorySegments == Slice(routeSegments, 1, Len(routeSegments) - 1)
        RoutePath(cleanedSegments) ==
            IF Len(cleanedSegments) = 0 THEN <<"/">>
            ELSE <<"/">> \o Join(MapTransformSegment(cleanedSegments), <<"/">>)
        directory == dirname(filePath)
        appRootPath == Slice(filePath, 1, appIndex)
        PageInfo(loadingInfo, errorInfo) ==
            [file |-> NormalizedFile(filePath),
             path |-> RoutePath(SelectSeq(directorySegments,
                                          shouldIncludeSegment)),
             loading |-> loadingInfo.status,
             error |-> errorInfo.status,
             loadingPath |-> loadingInfo.path,
             errorPath |-> errorInfo.path]
    IN IF appIndex = 0 THEN <<>>
       ELSE IF Len(routeSegments) = 0 THEN <<>>
       ELSE <<PageInfo(
                resolveFallbackInfo(fs, directory, loading, appRootPath),
                resolveFallbackInfo(fs, directory, error, appRootPath))>>

\* the loop of getPageRoutes over pageFiles, before the sort
RECURSIVE CollectPages(_, _)
CollectPages(fs, pageFiles) ==
    IF Len(pageFiles) = 0 THEN <<>>
    ELSE derivePageMeta(fs, pageFiles[1]) \o CollectPages(fs, Tail(pageFiles))

\* getPageRoutes when the walker found pageFiles in this order
getPageRoutes(fs, pageFiles) == Sort("pages", CollectPages(fs, pageFiles))

-----------------------------------------------------------------------------
(* Route-file mutations: inspector/mutations.ts                            *)

\* the character ` (a one-character string like the others; it is spelled
\* out because the character cannot stand in a string of this module)
Backquote == "backquote"

kwFrom == <<"f","r","o","m">>
kwImport == <<"i","m","p","o","r","t">>
kwType == <<"t","y","p","e">>
kwUse == <<"u","s","e">>
NextServer == <<"n","e","x","t","/","s","e","r","v","e","r">>
NextRequest == <<"N","e","x","t","R","e","q","u","e","s","t">>
NextResponse == <<"N","e","x","t","R","e","s","p","o","n","s","e">>
ImportNextResponse == <<"i","m","p","o","r","t"," ","{"," ","N","e","x","t","R","e","s","p","o","n","s","e"," ","}"," ","f","r","o","m"," ","'","n","e","x","t","/","s","e","r","v","e","r","'">>
ImportNextRequest == <<"i","m","p","o","r","t"," ","t","y","p","e"," ","{"," ","N","e","x","t","R","e","q","u","e","s","t"," ","}"," ","f","r","o","m"," ","'","n","e","x","t","/","s","e","r","v","e","r","'">>

\* exportPattern of addHttpMethod at index i, under the flag i:
\* \bexport\s+(?:async\s+)?(?:function|const)\s+METHOD\b
AddExportPatternAt(s, i, upperMethod) ==
    IF ~(WordBoundary(s, i) /\ LitAtCI(s, i, kwExport)) THEN FALSE
    ELSE LET Async(b) == IF LitAtCI(s, b, kwAsync) /\ IsSpace(At(s, b + 5))
                         THEN SkipSpace(s, b + 5) ELSE b
             Keyword(c) == IF LitAtCI(s, c, kwFunction) THEN c + 8
                           ELSE IF LitAtCI(s, c, kwConst) THEN c + 5
                           ELSE 0
             Name(d, e) == /\ d # 0
                           /\ e > d
                           /\ LitAtCI(s, e, upperMethod)
                           /\ WordBoundary(s, e + Len(upperMethod))
             Rest(d) == Name(d, SkipSpace(s, d))
             After(a, b) == b > a /\ Rest(Keyword(Async(b)))
         IN After(i + 6, SkipSpace(s, i + 6))

\* exportPattern.test(content)
AddExportPatternTest(s, upperMethod) ==
    \E i \in 1..Len(s) : AddExportPatternAt(s, i, upperMethod)

\* the tail ... \{[^}]*\}\s+from ['"]next\/server['"] of the import patterns,
\* with the opening brace expected at index open
ImportTailAt(line, open) ==
    LET close == IndexOfChar(line, "}", open + 1)
        from == SkipSpace(line, close + 1)
    IN /\ At(line, open) = "{"
       /\ close # 0
       /\ from > close + 1
       /\ LitAt(line, from, kwFrom)
       /\ At(line, from + 4) = " "
       /\ At(line, from + 5) \in {"'", "\""}
       /\ LitAt(line, from + 6, NextServer)
       /\ At(line, from + 6 + Len(NextServer)) \in {"'", "\""}

\* /^\s*import\s+\{[^}]*\}\s+from ['"]next\/server['"]/.test(line)
isValueImport(line) ==
    LET a == SkipSpace(line, 1)
        b == SkipSpace(line, a + 6)
    IN LitAt(line, a, kwImport) /\ b > a + 6 /\ ImportTailAt(line, b)

\* /^\s*import\s+type\s+\{[^}]*\}\s+from ['"]next\/server['"]/.test(line)
isTypeImport(line) ==
    LET a == SkipSpace(line, 1)
        b == SkipSpace(line, a + 6)
        c == SkipSpace(line, b + 4)
    IN /\ LitAt(line, a, kwImport)
       /\ b > a + 6
       /\ LitAt(line, b, kwType)
       /\ c > b + 4
       /\ ImportTailAt(line, c)

\* line.match(/\{([^}]+)\}/): the index of the opening brace of the first
\* brace pair with something between the braces, 0 for null
BracePairOpen(line) ==
    LET Pair(j) == line[j] = "{" /\ IndexOfChar(line, "}", j + 1) > j + 1
    IN First(1, Len(line), Pair)

BracePairClose(line) == IndexOfChar(line, "}", BracePairOpen(line) + 1)

\* s.replace(/^type\s+/, '')
DropTypePrefix(s) ==
    IF LitAt(s, 1, kwType) /\ IsSpace(At(s, 5))
    THEN Slice(s, SkipSpace(s, 5), Len(s)) ELSE s

RECURSIVE MapDropTypePrefix(_)
MapDropTypePrefix(parts) ==
    IF Len(parts) = 0 THEN <<>>
    ELSE <<DropTypePrefix(parts[1])>> \o MapDropTypePrefix(Tail(parts))

\* the specifiers between the first brace pair, trimmed
Specifiers(line) ==
    MapTrim(Split(Slice(line, BracePairOpen(line) + 1,
                        BracePairClose(line) - 1), ","))

hasSpecifier(line, name) ==
    IF BracePairOpen(line) = 0 THEN FALSE
    ELSE name \in Range(MapDropTypePrefix(Specifiers(line)))

\* Array.from(new Set(xs)): the first occurrences, in order
Unique(xs) ==
    LET FirstOccurrence(j) == \A k \in 1..(j - 1) : xs[k] # xs[j]
        marked == [j \in DOMAIN xs |-> <<xs[j], FirstOccurrence(j)>>]
        IsMarked(m) == m[2]
        kept == SelectSeq(marked, IsMarked)
    IN [j \in DOMAIN kept |-> kept[j][1]]

addSpecifier(line, name, asType) ==
    IF BracePairOpen(line) = 0 THEN line
    ELSE LET Next(existing) ==
                 Append(existing,
                        IF asType THEN kwType \o <<" ">> \o name ELSE name)
             Add(existing) ==
                 IF name \in Range(MapDropTypePrefix(existing)) THEN line
                 ELSE Slice(line, 1, BracePairOpen(line) - 1)
                      \o <<"{", " ">>
                      \o Join(Unique(Next(existing)), <<",", " ">>)
                      \o <<" ", "}">>
                      \o Slice(line, BracePairClose(line) + 1, Len(line))
         IN Add(SelectSeq(Specifiers(line), NonEmpty))

\* lines.findIndex(test), 1-based; 0 when no line passes
FindIndex(lines, Test(_)) == Least({j \in DOMAIN lines : Test(lines[j])})

\* /^['"]use\s+\w+['"];?$/.test(line.trim())
IsDirective(line) ==
    LET Closes(t, b) == /\ At(t, b) \in {"'", "\""}
                        /\ \/ b = Len(t)
                           \/ b + 1 = Len(t) /\ t[b + 1] = ";"
        Word(t, a) == a > 5 /\ RunEnd(t, a, IsWord) > a
                      /\ Closes(t, RunEnd(t, a, IsWord))
        Matches(t) == /\ At(t, 1) \in {"'", "\""}
                      /\ LitAt(t, 2, kwUse)
                      /\ Word(t, SkipSpace(t, 5))
    IN Matches(trim(line))

\* findInsertIndex: the number of directive lines the file starts with
findInsertIndex(lines) ==
    LET Count(stop) == IF stop = 0 THEN Len(lines) ELSE stop - 1
    IN Count(Least({j \in DOMAIN lines : ~IsDirective(lines[j])}))

\* lines.splice(index, 0, line) for a 0-based index
Splice(lines, index, line) ==
    SubSeq(lines, 1, index) \o <<line>> \o SubSeq(lines, index + 1, Len(lines))

\* the handler appended by addHttpMethod
MethodTemplate(upperMethod) ==
    <<"\n","e","x","p","o","r","t"," ","a","s","y","n","c"," ","f","u","n","c","t","i","o","n"," ">> \o upperMethod
    \o <<"(","r","e","q","u","e","s","t",":"," ","N","e","x","t","R","e","q","u","e","s","t",")"," ","{","\n">>
    \o <<" "," ","/","/"," ","T","O","D","O",":"," ","I","m","p","l","e","m","e","n","t"," ">> \o upperMethod
    \o <<" ","h","a","n","d","l","e","r","\n">>
    \o <<" "," ","r","e","t","u","r","n"," ","N","e","x","t","R","e","s","p","o","n","s","e",".","j","s","o","n","(","{"," ","m","e","s","s","a","g","e",":"," ","'">> \o upperMethod
    \o <<" ","h","a","n","d","l","e","r","'"," ","}",")","\n","}","\n">>

\* if (valueImportIndex !== -1): the value import gets both specifiers
CompleteValueImport(lines, valueImportIndex) ==
    IF valueImportIndex = 0 THEN lines
    ELSE [lines EXCEPT ![valueImportIndex] =
             addSpecifier(addSpecifier(@, NextResponse, FALSE),
                          NextRequest, TRUE)]

\* if (typeImportIndex !== -1): the type import gets NextRequest
CompleteTypeImport(lines, typeImportIndex) ==
    IF typeImportIndex = 0 THEN lines
    ELSE [lines EXCEPT ![typeImportIndex] =
             addSpecifier(@, NextRequest, FALSE)]

hasNextRequest(lines) ==
    \E j \in DOMAIN lines :
        /\ isValueImport(lines[j]) \/ isTypeImport(lines[j])
        /\ hasSpecifier(lines[j], NextRequest)

hasNextResponse(lines) ==
    \E j \in DOMAIN lines :
        isValueImport(lines[j]) /\ hasSpecifier(lines[j], NextResponse)

\* if (!hasNextResponse): the import is spliced in behind the value import,
\* else behind the type import, else behind the directives
InsertNextResponse(lines, has, valueImportIndex, typeImportIndex) ==
    IF has THEN lines
    ELSE Splice(lines,
                IF valueImportIndex # 0 THEN valueImportIndex
                ELSE IF typeImportIndex # 0 THEN typeImportIndex
                ELSE findInsertIndex(lines),
                ImportNextResponse)

\* if (!hasNextRequest): the type import is spliced in behind the directives
InsertNextRequest(lines, has) ==
    IF has THEN lines
    ELSE Splice(lines, findInsertIndex(lines), ImportNextRequest)

\* the two flags are taken before either import is spliced in
InsertImports(lines, valueImportIndex, typeImportIndex) ==
    InsertNextRequest(
        InsertNextResponse(lines, hasNextResponse(lines),
                           valueImportIndex, typeImportIndex),
        hasNextRequest(lines))

\* the two indices are taken before any line is changed
CompleteImports(lines, valueImportIndex, typeImportIndex) ==
    InsertImports(
        CompleteTypeImport(CompleteValueImport(lines, valueImportIndex),
                           typeImportIndex),
        valueImportIndex, typeImportIndex)

\* the lines of addHttpMethod after the import statements were completed
WithImports(lines) ==
    CompleteImports(lines, FindIndex(lines, isValueImport),
                    FindIndex(lines, isTypeImport))

\* a failure that is thrown only after the file was read
ThrownAfterRead(message, didRead) ==
    [error |-> message, wrote |-> FALSE, written |-> <<>>, read |-> TRUE]

\* a failure that leaves the file truncated
ThrownAfterWrite(message, didRead) ==
    [error |-> message, wrote |-> TRUE, written |-> <<>>, read |-> didRead]

\* what a call of a mutation comes to: the error thrown ("" for none), the
\* text written to the file (when wrote), and whether the file was read
Thrown(message, didRead) ==
    [error |-> message, wrote |-> FALSE, written |-> <<>>, read |-> didRead]
Written(text) ==
    [error |-> "", wrote |-> TRUE, written |-> text, read |-> TRUE]

\* addHttpMethod on a file that holds source
addHttpMethod(source, method) ==
    LET upperMethod == toUpperCase(method)
        Normalized(joined) == IF endsWith(joined, <<"\n">>) THEN joined
                              ELSE joined \o <<"\n">>
        normalizedContent ==
            Normalized(Join(WithImports(Split(source, "\n")), <<"\n">>))
    IN IF upperMethod \notin HTTP_METHODS
       THEN Thrown("Invalid HTTP method", FALSE)
       ELSE IF AddExportPatternTest(source, upperMethod)
       THEN Thrown("Method already exists", TRUE)
       ELSE Written(normalizedContent \o MethodTemplate(upperMethod))

\* cleanSpacing without the replacement of the runs of newlines
cleanSpacingKeepsRuns(code) == trimEnd(code) \o <<"\n">>

\* cleanSpacing: code.replace(/\n{3,}/g, '\n\n').trimEnd() + '\n'; of a run
\* of newlines the first two stay
cleanSpacing(code) ==
    LET Extra(j) == code[j] = "\n" /\ At(code, j - 1) = "\n"
                    /\ At(code, j - 2) = "\n"
        marked == [j \in DOMAIN code |-> <<code[j], ~Extra(j)>>]
        IsMarked(m) == m[2]
        kept == SelectSeq(marked, IsMarked)
    IN trimEnd([j \in DOMAIN kept |-> kept[j][1]]) \o <<"\n">>

\* removeRange(code, start, end): start is the index of the first character
\* cut and end the index of the last (slice(0, start) and slice(end) of the
\* source count from 0 and exclude end)
removeRange(code, start, end) ==
    cleanSpacing(Slice(code, 1, start - 1) \o Slice(code, end + 1, Len(code)))

\* the scanners look at one character after the other; here they go from
\* one character that changes their state to the next.  In code that is a
\* comment opener, a quote not behind a backslash, or a character counted
StartsLineComment(code, j) == code[j] = "/" /\ At(code, j + 1) = "/"
StartsBlockComment(code, j) == code[j] = "/" /\ At(code, j + 1) = "*"
OpensString(code, j) ==
    code[j] \in {"'", "\"", Backquote} /\ At(code, j - 1) # "\\"

\* a comment or string opens at index j: the index of the last character
\* the scanner passes over before it is back in code, 0 if it never is
SkippedThrough(code, j) ==
    LET LineBreak(k) == code[k] = "\n"
        BlockEnd(k) == code[k] = "/" /\ code[k - 1] = "*"
        Terminator(k) == code[k] = code[j] /\ code[k - 1] # "\\"
    IN IF StartsLineComment(code, j) THEN First(j + 2, Len(code), LineBreak)
       ELSE IF StartsBlockComment(code, j) THEN First(j + 2, Len(code), BlockEnd)
       ELSE First(j + 1, Len(code), Terminator)

\* findMatchingBrace from index i on with the depth counted so far: the
\* index of the closing brace, 0 for -1
RECURSIVE MatchBraceFrom(_, _, _)
MatchBraceFrom(code, i, depth) ==
    LET Event(j) == \/ StartsLineComment(code, j)
                    \/ StartsBlockComment(code, j)
                    \/ OpensString(code, j)
                    \/ code[j] \in {"{", "}"}
        e == First(i, Len(code), Event)
    IN IF e = 0 THEN 0
       ELSE IF StartsLineComment(code, e) \/ StartsBlockComment(code, e)
               \/ OpensString(code, e)
       THEN IF SkippedThrough(code, e) = 0 THEN 0
            ELSE MatchBraceFrom(code, SkippedThrough(code, e) + 1, depth)
       ELSE IF code[e] = "{" THEN MatchBraceFrom(code, e + 1, depth + 1)
       ELSE IF depth - 1 = 0 THEN e
       ELSE MatchBraceFrom(code, e + 1, depth - 1)

findMatchingBrace(code, openIndex) == MatchBraceFrom(code, openIndex, 0)

\* findStatementEnd from index i on with the depths counted so far: the
\* index of the last character of the statement (the source returns the
\* 0-based index behind it)
RECURSIVE StatementEndFrom(_, _, _)
StatementEndFrom(code, i, depth) ==
    LET Event(j) == \/ StartsLineComment(code, j)
                    \/ StartsBlockComment(code, j)
                    \/ OpensString(code, j)
                    \/ code[j] \in {"{", "}", "(", ")", "[", "]", ";"}
        e == First(i, Len(code), Event)
        Closed(d) == IF d > 0 THEN d - 1 ELSE d
        level == depth.brace = 0 /\ depth.paren = 0 /\ depth.bracket = 0
    IN IF e = 0 THEN Len(code)
       ELSE IF StartsLineComment(code, e)
       THEN IF SkippedThrough(code, e) = 0 THEN Len(code)
            ELSE IF level THEN SkippedThrough(code, e)
            ELSE StatementEndFrom(code, SkippedThrough(code, e) + 1, depth)
       ELSE IF StartsBlockComment(code, e) \/ OpensString(code, e)
       THEN IF SkippedThrough(code, e) = 0 THEN Len(code)
            ELSE StatementEndFrom(code, SkippedThrough(code, e) + 1, depth)
       ELSE IF code[e] = ";" /\ level THEN e
       ELSE StatementEndFrom(code, e + 1,
                CASE code[e] = "{" -> [depth EXCEPT !.brace = @ + 1]
                  [] code[e] = "}" -> [depth EXCEPT !.brace = Closed(@)]
                  [] code[e] = "(" -> [depth EXCEPT !.paren = @ + 1]
                  [] code[e] = ")" -> [depth EXCEPT !.paren = Closed(@)]
                  [] code[e] = "[" -> [depth EXCEPT !.bracket = @ + 1]
                  [] code[e] = "]" -> [depth EXCEPT !.bracket = Closed(@)]
                  [] OTHER -> depth)

findStatementEnd(code, start) ==
    StatementEndFrom(code, start, [brace |-> 0, paren |-> 0, bracket |-> 0])

\* functionPattern at index i: export\s+(?:async\s+)?function\s+METHOD\b
FunctionPatternAt(s, i, upperMethod) ==
    IF ~LitAt(s, i, kwExport) THEN FALSE
    ELSE LET Async(b) == IF LitAt(s, b, kwAsync) /\ IsSpace(At(s, b + 5))
                         THEN SkipSpace(s, b + 5) ELSE b
             Name(d, e) == /\ e > d
                           /\ LitAt(s, e, upperMethod)
                           /\ WordBoundary(s, e + Len(upperMethod))
             Keyword(c) == LitAt(s, c, kwFunction)
                           /\ Name(c + 8, SkipSpace(s, c + 8))
             After(a, b) == b > a /\ Keyword(Async(b))
         IN After(i + 6, SkipSpace(s, i + 6))

\* varPattern at index i: export\s+(?:const|let|var)\s+METHOD\b
VarPatternAt(s, i, upperMethod) ==
    IF ~LitAt(s, i, kwExport) THEN FALSE
    ELSE LET Name(d, e) == /\ d # 0
                           /\ e > d
                           /\ LitAt(s, e, upperMethod)
                           /\ WordBoundary(s, e + Len(upperMethod))
             Keyword(d) == Name(d, SkipSpace(s, d))
             After(a, b) == b > a /\ Keyword(DeclKeywordEnd(s, b))
         IN After(i + 6, SkipSpace(s, i + 6))

\* the while loop after the closing brace: white space is cut up to and
\* including the first empty line; the index of the last character cut
FunctionCutEnd(code, closeBrace) ==
    LET EmptyLine(k) == code[k] = "\n" /\ At(code, k + 1) = "\n"
        Cut(stop, k) == IF k # 0 THEN k + 1 ELSE stop - 1
        Until(stop) == Cut(stop, First(closeBrace + 1, stop - 1, EmptyLine))
    IN Until(SkipSpace(code, closeBrace + 1))

\* the separator /\s+as\s+/i of entry.split matches at index j
AsSeparatorAt(entry, j) ==
    LET As(k) == LitAtCI(entry, k, kwAs) /\ IsSpace(At(entry, k + 2))
    IN IsSpace(entry[j]) /\ As(SkipSpace(entry, j))

\* the first index >= i at which the separator matches, 0 if there is none
AsSeparatorFrom(entry, i) ==
    Least({j \in i..Len(entry) : AsSeparatorAt(entry, j)})

\* entry.split(/\s+as\s+/i).map((v) => v?.trim()), the first two pieces:
\* the original name and, after it when there is one, the alias
SpecifierNames(entry) ==
    LET Alias(from2, s2) ==
            trim(Slice(entry, from2, IF s2 = 0 THEN Len(entry) ELSE s2 - 1))
        Behind(from2) == Alias(from2, AsSeparatorFrom(entry, from2))
        Pieces(s1) ==
            IF s1 = 0 THEN <<trim(entry)>>
            ELSE <<trim(Slice(entry, 1, s1 - 1)),
                   Behind(SkipSpace(entry, SkipSpace(entry, s1) + 2))>>
    IN Pieces(AsSeparatorFrom(entry, 1))

\* a filter that looks at the original name only
KeepsSpecifierByOriginal(entry, upperMethod) ==
    toUpperCase(SpecifierNames(entry)[1]) # upperMethod

\* the filter of the named-export branch: the entry stays
KeepsSpecifier(entry, upperMethod) ==
    LET NoneIs(names) ==
            \A k \in DOMAIN names : toUpperCase(names[k]) # upperMethod
    IN NoneIs(SpecifierNames(entry))

\* exportPattern /export\s*{([^}]+)}/g of removeHttpMethod at index i
ExportListAt(s, i) ==
    IF ~LitAt(s, i, kwExport) THEN NoMatch
    ELSE LET open == SkipSpace(s, i + 6)
             close == IndexOfChar(s, "}", open + 1)
         IN IF At(s, open) = "{" /\ close > open + 1
            THEN [start |-> i, end |-> close + 1,
                  cap |-> Slice(s, open + 1, close - 1)]
            ELSE NoMatch

\* the while loop of the named-export branch from index i on: the updated
\* text in a one-element sequence, empty when no list names the method
RECURSIVE PruneExportList(_, _, _)
PruneExportList(updated, i, upperMethod) ==
    LET Keeps(entry) == KeepsSpecifier(entry, upperMethod)
        Replacement(filtered) ==
            <<"e","x","p","o","r","t"," ","{"," ">>
            \o Join(filtered, <<",", " ">>) \o <<" ", "}">>
        Rewrite(match, entries, filtered) ==
            IF Len(filtered) = Len(entries)
            THEN PruneExportList(updated, match.end, upperMethod)
            ELSE IF Len(filtered) = 0
            THEN <<removeRange(updated, match.start, match.end - 1)>>
            ELSE <<cleanSpacing(Slice(updated, 1, match.start - 1)
                                \o Replacement(filtered)
                                \o Slice(updated, match.end, Len(updated)))>>
        Filter(match, entries) ==
            Rewrite(match, entries, SelectSeq(entries, Keeps))
        Prune(match) ==
            IF match.end = 0 THEN <<>>
            ELSE Filter(match,
                        SelectSeq(MapTrim(Split(match.cap, ",")), NonEmpty))
    IN Prune(FirstMatch([j \in i..Len(updated) |-> ExportListAt(updated, j)]))

\* functionPattern.exec(updated).index and varPattern.exec(updated).index,
\* 0 for null
FunctionMatch(updated, upperMethod) ==
    Least({j \in 1..Len(updated) : FunctionPatternAt(updated, j, upperMethod)})

VarMatch(updated, upperMethod) ==
    Least({j \in 1..Len(updated) : VarPatternAt(updated, j, upperMethod)})

\* 1) export function METHOD() { ... }
RemoveFunction(updated, functionMatch) ==
    LET Through(closeBrace) ==
            IF closeBrace = 0
            THEN Thrown("Unable to locate closing brace", TRUE)
            ELSE Written(removeRange(updated, functionMatch,
                                     FunctionCutEnd(updated, closeBrace)))
        Block(openBrace) ==
            IF openBrace = 0 THEN Thrown("Unable to locate block", TRUE)
            ELSE Through(findMatchingBrace(updated, openBrace))
    IN Block(IndexOfChar(updated, "{", functionMatch))

\* 2) export const METHOD = ...
RemoveVariable(updated, varMatch) ==
    Written(removeRange(updated, varMatch, findStatementEnd(updated, varMatch)))

\* 3) export { METHOD, ... }
RemoveNamed(pruned) ==
    IF pruned # <<>> THEN Written(pruned[1])
    ELSE Thrown("Method not found or could not be removed", TRUE)

\* the three shapes are tried in this order, and the first found is removed
RemoveFirstShape(updated, upperMethod, functionMatch, varMatch) ==
    IF functionMatch # 0 THEN RemoveFunction(updated, functionMatch)
    ELSE IF varMatch # 0 THEN RemoveVariable(updated, varMatch)
    ELSE RemoveNamed(PruneExportList(updated, 1, upperMethod))

\* removeHttpMethod on a file that holds source
removeHttpMethod(source, method) ==
    LET upperMethod == toUpperCase(method)
    IN IF upperMethod \notin HTTP_METHODS
       THEN Thrown("Invalid HTTP method", FALSE)
       ELSE RemoveFirstShape(source, upperMethod,
                             FunctionMatch(source, upperMethod),
                             VarMatch(source, upperMethod))

-----------------------------------------------------------------------------
(* Route discovery as a state machine: a project tree is given, and the    *)
(* two tables are requested any number of times                            *)

\* the number of files in the scanned tree
MaxFiles == 3

\* route handler sources
SourceGet == <<"e","x","p","o","r","t"," ","f","u","n","c","t","i","o","n"," ","G","E","T","(",")"," ","{","}","\n">>
SourcePostGet ==
    <<"e","x","p","o","r","t"," ","f","u","n","c","t","i","o","n"," ","P","O","S","T","(",")"," ","{","}","\n">>
    \o <<"e","x","p","o","r","t"," ","f","u","n","c","t","i","o","n"," ","g","e","t","(",")"," ","{","}","\n">>
    \o <<"e","x","p","o","r","t"," ","{"," ","h"," ","a","s"," ","G","E","T",","," ","f","o","o"," ","}","\n">>
SourceNoMethod ==
    <<"/","/"," ","e","x","p","o","r","t"," ","f","u","n","c","t","i","o","n"," ","P","U","T","(",")"," ","{","}","\n">>
    \o <<"e","x","p","o","r","t"," ","c","o","n","s","t"," ","x"," ","="," ","1","\n">>

RouteSources == {SourceGet, SourcePostGet, SourceNoMethod}

\* the files a scanned tree is made of
ViewFiles == {
    <<<<"a","p","p">>, <<"p","a","g","e",".","t","s","x">>>>,
    <<<<"a","p","p">>, <<"@","m","o","d","a","l">>, <<"p","a","g","e",".","j","s">>>>,
    <<<<"a","p","p">>, <<"(","m","a","r","k","e","t","i","n","g",")">>, <<"a","b","o","u","t">>, <<"p","a","g","e",".","t","s","x">>>>,
    <<<<"a","p","p">>, <<"b","l","o","g">>, <<"[","s","l","u","g","]">>, <<"p","a","g","e",".","t","s","x">>>>,
    <<<<"a","p","p">>, <<".",".","x">>, <<"p","a","g","e",".","t","s","x">>>>,
    <<<<"l","i","b">>, <<"p","a","g","e",".","t","s","x">>>>}

FallbackFiles == {
    <<<<"l","o","a","d","i","n","g",".","t","s","x">>>>,
    <<<<"a","p","p">>, <<"l","o","a","d","i","n","g",".","t","s","x">>>>,
    <<<<"a","p","p">>, <<"b","l","o","g">>, <<"l","o","a","d","i","n","g",".","t","s","x">>>>,
    <<<<"a","p","p">>, <<"b","l","o","g">>, <<"[","s","l","u","g","]">>, <<"e","r","r","o","r",".","j","s">>>>,
    <<<<"a","p","p">>, <<".",".","x">>, <<"l","o","a","d","i","n","g",".","t","s","x">>>>}

HandlerFiles == {
    <<<<"a","p","p">>, <<"(","a",")">>, <<"a","p","i">>, <<"x">>, <<"r","o","u","t","e",".","t","s">>>>,
    <<<<"a","p","p">>, <<"(","b",")">>, <<"a","p","i">>, <<"x">>, <<"r","o","u","t","e",".","t","s">>>>,
    <<<<"a","p","p">>, <<"a","p","i">>, <<"[","[",".",".",".","a","l","l","]","]">>, <<"r","o","u","t","e",".","j","s">>>>,
    <<<<"a","p","p">>, <<"u","s","e","r","s">>, <<"r","o","u","t","e",".","t","s">>>>,
    <<<<"n","o","d","e","_","m","o","d","u","l","e","s">>, <<"a","p","p">>, <<"a","p","i">>, <<"x">>, <<"r","o","u","t","e",".","t","s">>>>}

\* the sources a file of the tree may hold: the two handler files of the
\* route /api/x vary, every other handler file exports GET, and the text of
\* view and fallback files plays no part
SourcesOf(p) ==
    IF p = <<<<"a","p","p">>, <<"(","a",")">>, <<"a","p","i">>, <<"x">>,
             <<"r","o","u","t","e",".","t","s">>>>
    THEN {SourceGet, SourcePostGet, SourceNoMethod}
    ELSE IF p = <<<<"a","p","p">>, <<"(","b",")">>, <<"a","p","i">>, <<"x">>,
                  <<"r","o","u","t","e",".","t","s">>>>
    THEN {SourceGet, SourcePostGet}
    ELSE IF p \in HandlerFiles THEN {SourceGet}
    ELSE {<<>>}

Trees ==
    {fs \in UNION {[S -> RouteSources \cup {<<>>}] :
                     S \in {T \in SUBSET (ViewFiles \cup FallbackFiles
                                            \cup HandlerFiles) :
                              Cardinality(T) <= MaxFiles}} :
        \A p \in DOMAIN fs : fs[p] \in SourcesOf(p)}

NotReturned == [returned |-> FALSE, rows |-> <<>>]

Init ==
    /\ fallback = <<>>
    /\ walk = <<>>
    /\ links = <<>>
    /\ scan = <<>>
    /\ lastIndex = <<>>
    /\ calls = <<>>
    /\ files \in Trees
    /\ routes = NotReturned
    /\ pages = NotReturned
    /\ segment = <<>>
    /\ token = <<>>
    /\ content = <<>>
    /\ history = <<>>

\* a call of getApiRoutes on the scan root
GetApiRoutes ==
    /\ \E routeFiles \in findRouteFiles(files) :
          routes' = [returned |-> TRUE, rows |-> getApiRoutes(files, routeFiles)]
    /\ UNCHANGED <<fallback, walk, links, scan, lastIndex, calls, files, pages, segment, token, content, history>>

\* a call of getPageRoutes on the scan root
GetPageRoutes ==
    /\ \E pageFiles \in findPageFiles(files) :
          pages' = [returned |-> TRUE, rows |-> getPageRoutes(files, pageFiles)]
    /\ UNCHANGED <<fallback, walk, links, scan, lastIndex, calls, files, routes, segment, token, content, history>>

Next == GetApiRoutes \/ GetPageRoutes

Spec == Init /\ [][Next]_vars

-----------------------------------------------------------------------------
(* Route discovery on trees with nested app directories, files outside any *)
(* app directory, and directories that hold several fallback candidates    *)

NestedViewFiles == {
    <<<<"a","p","p">>, <<"s","h","o","p">>, <<"a","p","p">>, <<"p","a","g","e",".","t","s","x">>>>,
    <<<<"a","p","p">>, <<"s","h","o","p">>, <<"a","p","p">>, <<"i","t","e","m">>, <<"p","a","g","e",".","t","s","x">>>>,
    <<<<"l","i","b">>, <<"p","a","g","e",".","t","s","x">>>>}

NestedFallbackFiles == {
    <<<<"l","o","a","d","i","n","g",".","t","s","x">>>>,
    <<<<"a","p","p">>, <<"l","o","a","d","i","n","g",".","t","s","x">>>>,
    <<<<"a","p","p">>, <<"s","h","o","p">>, <<"e","r","r","o","r",".","j","s">>>>,
    <<<<"a","p","p">>, <<"s","h","o","p">>, <<"a","p","p">>, <<"l","o","a","d","i","n","g",".","m","d">>>>,
    <<<<"a","p","p">>, <<"s","h","o","p">>, <<"a","p","p">>, <<"l","o","a","d","i","n","g",".","t","s","x">>>>}

NestedHandlerFiles == {
    <<<<"a","p","p">>, <<"r","o","u","t","e",".","t","s">>>>,
    <<<<"l","i","b">>, <<"a","p","i">>, <<"r","o","u","t","e",".","t","s">>>>,
    <<<<"a","p","p">>, <<"s","h","o","p">>, <<"a","p","p">>, <<"a","p","i">>, <<"x">>, <<"r","o","u","t","e",".","t","s">>>>,
    <<<<"a","p","p">>, <<"(","g",")">>, <<"x">>, <<"a","p","i">>, <<"r","o","u","t","e",".","t","s">>>>,
    <<<<"a","p","p">>, <<"(","g",")">>, <<"@","s">>, <<"a","p","i">>, <<"r","o","u","t","e",".","t","s">>>>}

\* every handler file exports GET; the text of the other files plays no part
NestedTrees ==
    {[p \in S |-> IF p \in NestedHandlerFiles THEN SourceGet ELSE <<>>] :
        S \in {T \in SUBSET (NestedViewFiles \cup NestedFallbackFiles
                               \cup NestedHandlerFiles) :
                 Cardinality(T) <= MaxFiles}}

InitNested ==
    /\ fallback = <<>>
    /\ walk = <<>>
    /\ links = <<>>
    /\ scan = <<>>
    /\ lastIndex = <<>>
    /\ calls = <<>>
    /\ files \in NestedTrees
    /\ routes = NotReturned
    /\ pages = NotReturned
    /\ segment = <<>>
    /\ token = <<>>
    /\ content = <<>>
    /\ history = <<>>

SpecNested == InitNested /\ [][Next]_vars

-----------------------------------------------------------------------------
(* The method extractor on one handler file whose text is a named-export   *)
(* list, or lines with comments and string literals                        *)

MaxSpecifiers == 2
MaxLines == 2

handler == <<"h","a","n","d","l","e","r">>

\* a specifier of an export list: a local name and its alias, empty for none
AliasSpecifiers ==
    {[original |-> o, alias |-> a] :
        o \in {GET, POST, handler}, a \in {<<>>, GET, POST, handler}}

SpecifierLists == UNION {[1..n -> AliasSpecifiers] : n \in 1..MaxSpecifiers}

SpecifierText(s) ==
    IF s.alias = <<>> THEN s.original
    ELSE s.original \o <<" ","a","s"," ">> \o s.alias

\* export { a, b as c } and a line break
ExportListText(list) ==
    <<"e","x","p","o","r","t"," ","{"," ">>
    \o Join([j \in DOMAIN list |-> SpecifierText(list[j])], <<",", " ">>)
    \o <<" ","}","\n">>

CommentedPostLine ==
    <<"/","/"," ","e","x","p","o","r","t"," ","f","u","n","c","t","i","o","n"," ","P","O","S","T","(",")"," ","{","}","\n">>
BlockCommentedPutLine ==
    <<"/","*"," ","e","x","p","o","r","t"," ","c","o","n","s","t"," ","P","U","T"," ","="," ","1"," ","*","/","\n">>
SlashesInStringLine ==
    <<"c","o","n","s","t"," ","s"," ","="," ","\"","a"," ","/","/"," ","b","\"",";"," ">>
    \o <<"e","x","p","o","r","t"," ","f","u","n","c","t","i","o","n"," ","G","E","T","(",")"," ","{","}","\n">>
BlockMarksInStringsLine ==
    <<"c","o","n","s","t"," ","a"," ","="," ","\"","/","*","\"",";"," ">>
    \o <<"e","x","p","o","r","t"," ","f","u","n","c","t","i","o","n"," ","H","E","A","D","(",")"," ","{","}",";"," ">>
    \o <<"c","o","n","s","t"," ","b"," ","="," ","\"","*","/","\"","\n">>
DeleteLine ==
    <<"e","x","p","o","r","t"," ","f","u","n","c","t","i","o","n"," ","D","E","L","E","T","E","(",")"," ","{","}","\n">>
CommentAfterCodeLine ==
    <<"c","o","n","s","t"," ","c"," ","="," ","1",";","/","/"," ">>
    \o <<"e","x","p","o","r","t"," ","f","u","n","c","t","i","o","n"," ","P","A","T","C","H","(",")"," ","{","}","\n">>

CommentLines == {CommentedPostLine, BlockCommentedPutLine, SlashesInStringLine,
                 BlockMarksInStringsLine, DeleteLine, CommentAfterCodeLine}

RECURSIVE LinesUpTo(_)
LinesUpTo(n) ==
    IF n = 0 THEN {<<>>}
    ELSE LinesUpTo(n - 1)
         \cup {s \o l : s \in LinesUpTo(n - 1), l \in CommentLines}

ExtractSources ==
    {ExportListText(l) : l \in SpecifierLists} \cup LinesUpTo(MaxLines)

\* the handler file whose text varies
ExtractFile ==
    <<<<"a","p","p">>, <<"a","p","i">>, <<"x">>, <<"r","o","u","t","e",".","t","s">>>>

InitExtract ==
    /\ fallback = <<>>
    /\ walk = <<>>
    /\ links = <<>>
    /\ scan = <<>>
    /\ lastIndex = <<>>
    /\ calls = <<>>
    /\ files \in {[p \in {ExtractFile} |-> s] : s \in ExtractSources}
    /\ routes = NotReturned
    /\ pages = NotReturned
    /\ segment = <<>>
    /\ token = <<>>
    /\ content = <<>>
    /\ history = <<>>

SpecExtract == InitExtract /\ [][Next]_vars

-----------------------------------------------------------------------------
(* Route discovery on trees with skipped directories at several depths and *)
(* with directories named like route and page files                        *)

SkippedHandlerFiles == {
    <<app, api, <<"r","o","u","t","e",".","t","s">>>>,
    <<app, api, <<"n","o","d","e","_","m","o","d","u","l","e","s">>, <<"r","o","u","t","e",".","t","s">>>>,
    <<app, api, <<"x">>, <<".","g","i","t">>, <<"y">>, <<"r","o","u","t","e",".","t","s">>>>,
    <<<<".","n","e","x","t">>, app, api, <<"r","o","u","t","e",".","t","s">>>>,
    <<app, api, <<"d","i","s","t">>, <<"r","o","u","t","e",".","t","s">>>>,
    <<app, api, <<"b","u","i","l","d">>, <<"r","o","u","t","e",".","t","s">>>>}

SkippedViewFiles == {
    <<app, <<"p","a","g","e",".","t","s","x">>>>,
    <<app, <<".","t","u","r","b","o">>, <<"p","a","g","e",".","t","s","x">>>>,
    <<app, <<".","v","e","r","c","e","l">>, <<"p","a","g","e",".","t","s","x">>>>,
    <<app, <<"o","u","t">>, <<"p","a","g","e",".","t","s","x">>>>,
    <<app, <<"s","h","o","p">>, <<"c","o","v","e","r","a","g","e">>, <<"p","a","g","e",".","t","s","x">>>>,
    <<app, <<"o","u","t","e","r">>, <<"p","a","g","e",".","t","s","x">>>>}

\* files that make a directory with the name of a route file or a page file
NamesakeFiles == {
    <<app, api, <<"d">>, <<"r","o","u","t","e",".","t","s">>, <<"x",".","t","s">>>>,
    <<app, <<"d">>, <<"p","a","g","e",".","t","s","x">>, <<"n","o","t","e",".","m","d">>>>}

SkippedTrees ==
    {[p \in S |-> IF p \in SkippedHandlerFiles THEN SourceGet ELSE <<>>] :
        S \in {T \in SUBSET (SkippedHandlerFiles \cup SkippedViewFiles
                               \cup NamesakeFiles) :
                 Cardinality(T) <= MaxFiles}}

InitSkipped ==
    /\ fallback = <<>>
    /\ walk = <<>>
    /\ links = <<>>
    /\ scan = <<>>
    /\ lastIndex = <<>>
    /\ calls = <<>>
    /\ files \in SkippedTrees
    /\ routes = NotReturned
    /\ pages = NotReturned
    /\ segment = <<>>
    /\ token = <<>>
    /\ content = <<>>
    /\ history = <<>>

SpecSkipped == InitSkipped /\ [][Next]_vars

-----------------------------------------------------------------------------
(* The segment classifier as a state machine: segments are classified one  *)
(* after the other                                                         *)

\* the length of a parameter name
MaxNameLen == 2

\* characters of a parameter name
NameChars == {"a", "b", "_"}

RECURSIVE StringsUpTo(_, _)
StringsUpTo(chars, n) ==
    IF n = 0 THEN {<<>>}
    ELSE StringsUpTo(chars, n - 1)
         \cup {Append(s, c) : s \in StringsUpTo(chars, n - 1), c \in chars}

Names == StringsUpTo(NameChars, MaxNameLen) \ {<<>>}

\* well-formed and malformed segments
Segments ==
    {open \o name \o close :
        open \in {<<>>, <<"[">>, <<"[",".",".",".">>, <<"[","[",".",".",".">>,
                  <<"[","[">>, <<"(">>, <<"@">>},
        name \in Names \cup {<<>>},
        close \in {<<>>, <<"]">>, <<"]","]">>, <<")">>}}

InitSegment ==
    /\ fallback = <<>>
    /\ walk = <<>>
    /\ links = <<>>
    /\ scan = <<>>
    /\ lastIndex = <<>>
    /\ calls = <<>>
    /\ segment = <<>>
    /\ token = <<>>
    /\ files = <<>>
    /\ routes = NotReturned
    /\ pages = NotReturned
    /\ content = <<>>
    /\ history = <<>>

\* a call of transformSegment
TransformSegment ==
    /\ \E s \in Segments :
          /\ segment' = s
          /\ token' = transformSegment(s)
    /\ UNCHANGED <<fallback, walk, links, scan, lastIndex, calls, files, routes, pages, content, history>>

NextSegment == TransformSegment

SpecSegment == InitSegment /\ [][NextSegment]_vars

-----------------------------------------------------------------------------
(* The mutation engine as a state machine: a route file is given, and      *)
(* addHttpMethod and removeHttpMethod are called on it one after the other *)

\* the number of statements in the route file at the start
MaxStatements == 2

\* the number of calls made
MaxCalls == 2

\* statements of a route file, each with its line break
FunctionGet ==
    <<"e","x","p","o","r","t"," ","f","u","n","c","t","i","o","n"," ","G","E","T","(",")","{"," ","r","e","t","u","r","n"," ","R","e","s","p","o","n","s","e",".","j","s","o","n","(","{","m","s","g",":"," ","\"","a"," ","}"," ","b","\"","}",")"," ","}">>
FunctionGetWithParams ==
    <<"e","x","p","o","r","t"," ","a","s","y","n","c"," ","f","u","n","c","t","i","o","n"," ","G","E","T","(","r","e","q",","," ","{"," ","p","a","r","a","m","s"," ","}",")"," ","{","\n">>
    \o <<" "," ","r","e","t","u","r","n"," ","1","\n","}">>
CommentedPost == <<"/","/"," ","e","x","p","o","r","t"," ","f","u","n","c","t","i","o","n"," ","P","O","S","T","(",")"," ","{","}">>
ListGetPost == <<"e","x","p","o","r","t"," ","{"," ","G","E","T",","," ","P","O","S","T"," ","}">>
ListAliases == <<"e","x","p","o","r","t"," ","{"," ","h"," ","a","s"," ","G","E","T",","," ","P","U","T"," ","a","s"," ","x"," ","}">>
ConstPost == <<"e","x","p","o","r","t"," ","c","o","n","s","t"," ","P","O","S","T"," ","="," ","1",";">>
DestructuredGetHead == <<"e","x","p","o","r","t"," ","c","o","n","s","t"," ","{"," ","G","E","T",","," ","H","E","A","D"," ","}"," ","="," ","h","a","n","d","l","e","r","s">>

Statements == {FunctionGet, FunctionGetWithParams, CommentedPost, ListGetPost,
               ListAliases, ConstPost, DestructuredGetHead}

RECURSIVE SourcesUpTo(_)
SourcesUpTo(n) ==
    IF n = 0 THEN {<<>>}
    ELSE SourcesUpTo(n - 1)
         \cup {s \o st \o <<"\n">> : s \in SourcesUpTo(n - 1), st \in Statements}

\* the method names the callers pass
MethodsAsked == {GET, POST, <<"T","R","A","C","E">>}

InitMutation ==
    /\ fallback = <<>>
    /\ walk = <<>>
    /\ links = <<>>
    /\ scan = <<>>
    /\ lastIndex = <<>>
    /\ calls = <<>>
    /\ content \in SourcesUpTo(MaxStatements)
    /\ history = <<>>
    /\ files = <<>>
    /\ routes = NotReturned
    /\ pages = NotReturned
    /\ segment = <<>>
    /\ token = <<>>

\* a call with its outcome r: the file keeps its bytes unless r was written
Call(op, method, r) ==
    /\ Len(history) < MaxCalls
    /\ content' = IF r.wrote THEN r.written ELSE content
    /\ history' = Append(history, [op |-> op, method |-> method,
                                   before |-> content, result |-> r])
    /\ UNCHANGED <<fallback, walk, links, scan, lastIndex, calls, files, routes, pages, segment, token>>

AddHttpMethod ==
    \E method \in MethodsAsked :
        Call("add", method, addHttpMethod(content, method))

RemoveHttpMethod ==
    \E method \in MethodsAsked :
        Call("remove", method, removeHttpMethod(content, method))

NextMutation == AddHttpMethod \/ RemoveHttpMethod

SpecMutation == InitMutation /\ [][NextMutation]_vars

-----------------------------------------------------------------------------
(* The mutation engine on malformed route files: the same calls, made on   *)
(* files that end in a function head without a block or in a block that is *)
(* never closed                                                            *)

HeadWithoutBlock == <<"e","x","p","o","r","t"," ","f","u","n","c","t","i","o","n"," ","P","O","S","T","(",")">>
UnclosedGet == <<"e","x","p","o","r","t"," ","f","u","n","c","t","i","o","n"," ","G","E","T","(",")"," ","{">>

MalformedEndings ==
    {HeadWithoutBlock \o <<"\n">>,
     UnclosedGet \o <<"\n">>,
     UnclosedGet \o <<"\n">> \o HeadWithoutBlock \o <<"\n">>}

InitMalformed ==
    /\ fallback = <<>>
    /\ walk = <<>>
    /\ links = <<>>
    /\ scan = <<>>
    /\ lastIndex = <<>>
    /\ calls = <<>>
    /\ content \in {s \o m : s \in SourcesUpTo(MaxStatements - 1),
                             m \in MalformedEndings}
    /\ history = <<>>
    /\ files = <<>>
    /\ routes = NotReturned
    /\ pages = NotReturned
    /\ segment = <<>>
    /\ token = <<>>

SpecMalformed == InitMalformed /\ [][NextMutation]_vars

-----------------------------------------------------------------------------
(* Concurrent callers of the mutation engine: each call reads the whole    *)
(* file, and after its await writes the whole file; no lock is taken.  A   *)
(* read and a write of the file are each taken as one step.                *)

\* the number of callers, each making one call
MaxCallers == 2

Callers == 1..MaxCallers

SourceNoVerb == <<"e","x","p","o","r","t"," ","c","o","n","s","t"," ","x"," ","="," ","1","\n">>

RaceSources == {SourceNoVerb, SourceGet, ListGetPost \o <<"\n">>}

NoResult == [error |-> "", wrote |-> FALSE, written |-> <<>>, read |-> FALSE]

Idle == [phase |-> "idle", op |-> "", method |-> <<>>, text |-> <<>>,
         readAt |-> 0, result |-> NoResult]

\* the number of writes made to the file so far
Writes == Cardinality({k \in DOMAIN history : history[k].result.wrote})

\* the text of the file at the time of the write, as if the read and the
\* write of a call were one step
TextOnDisk(call, onDisk) == onDisk

\* the text a call works on once its read has resolved: the value of its
\* variable content, whatever the file holds by then
TextInHand(call, onDisk) == call.text

\* what the body of the function comes to on the text it works on
Outcome(op, source, method) ==
    IF op = "add" THEN addHttpMethod(source, method)
    ELSE removeHttpMethod(source, method)

InitRace ==
    /\ fallback = <<>>
    /\ walk = <<>>
    /\ links = <<>>
    /\ scan = <<>>
    /\ lastIndex = <<>>
    /\ calls = [c \in Callers |-> Idle]
    /\ content \in RaceSources
    /\ history = <<>>
    /\ files = <<>>
    /\ routes = NotReturned
    /\ pages = NotReturned
    /\ segment = <<>>
    /\ token = <<>>

\* a call whose method is not one of the HTTP methods throws before it reads
RejectCall(c) ==
    \E op \in {"add", "remove"}, method \in MethodsAsked :
        /\ calls[c].phase = "idle"
        /\ toUpperCase(method) \notin HTTP_METHODS
        /\ calls' = [calls EXCEPT ![c] =
                        [phase |-> "done", op |-> op, method |-> method,
                         text |-> <<>>, readAt |-> Writes,
                         result |-> Outcome(op, content, method)]]
        /\ history' = Append(history,
                         [op |-> op, method |-> method, before |-> content,
                          readAt |-> Writes,
                          result |-> Outcome(op, content, method)])
        /\ UNCHANGED <<fallback, walk, links, scan, lastIndex, content, files, routes, pages, segment, token>>

\* fs.readFile resolves: the call holds the text of the file
ReadFile(c) ==
    \E op \in {"add", "remove"}, method \in MethodsAsked :
        /\ calls[c].phase = "idle"
        /\ toUpperCase(method) \in HTTP_METHODS
        /\ calls' = [calls EXCEPT ![c] =
                        [phase |-> "read", op |-> op, method |-> method,
                         text |-> content, readAt |-> Writes,
                         result |-> NoResult]]
        /\ UNCHANGED <<fallback, walk, links, scan, lastIndex, content, history, files, routes, pages, segment, token>>

\* the rest of the call: the text in hand is transformed, and either the
\* call throws or fs.writeFile replaces the file
FinishCall(c) ==
    /\ calls[c].phase = "read"
    /\ LET r == Outcome(calls[c].op, TextInHand(calls[c], content),
                        calls[c].method)
       IN /\ calls' = [calls EXCEPT ![c].phase = "done", ![c].result = r]
          /\ content' = IF r.wrote THEN r.written ELSE content
          /\ history' = Append(history,
                           [op |-> calls[c].op, method |-> calls[c].method,
                            before |-> calls[c].text,
                            readAt |-> calls[c].readAt, result |-> r])
    /\ UNCHANGED <<fallback, walk, links, scan, lastIndex, files, routes, pages, segment, token>>

NextRace ==
    \E c \in Callers : RejectCall(c) \/ ReadFile(c) \/ FinishCall(c)

SpecRace == InitRace /\ [][NextRace]_vars

-----------------------------------------------------------------------------
(* Overlapping discovery requests: getApiRoutes awaits extractHttpMethods  *)
(* file by file, so the loops of several requests interleave at the        *)
(* awaits, and the view table is built at the same time                    *)

OverlapHandlerFiles ==
    {<<<<"a","p","p">>, <<"a","p","i">>, <<"x">>, <<"r","o","u","t","e",".","t","s">>>>,
     <<<<"a","p","p">>, <<"a","p","i">>, <<"y">>, <<"r","o","u","t","e",".","t","s">>>>}

\* one handler file with two verbs and one with a single verb
OverlapSources == {SourcePostGet, SourceGet}

OverlapTrees ==
    {[p \in OverlapHandlerFiles \cup {<<app, <<"p","a","g","e",".","t","s","x">>>>} |->
        IF p \in OverlapHandlerFiles THEN src[p] ELSE <<>>] :
        src \in [OverlapHandlerFiles -> OverlapSources]}

NoRequest == [phase |-> "idle", order |-> <<>>, pending |-> <<>>,
              rows |-> <<>>, result |-> <<>>]

InitOverlap ==
    /\ fallback = <<>>
    /\ walk = <<>>
    /\ links = <<>>
    /\ scan = <<>>
    /\ lastIndex = [p \in Range(ExportPatterns) |-> 0]
    /\ calls = [c \in Callers |-> NoRequest]
    /\ files \in OverlapTrees
    /\ routes = NotReturned
    /\ pages = NotReturned
    /\ segment = <<>>
    /\ token = <<>>
    /\ content = <<>>
    /\ history = <<>>

\* getApiRoutes up to the start of its loop: the walker has listed the files
BeginApiRoutes(c) ==
    /\ calls[c].phase = "idle"
    /\ \E routeFiles \in findRouteFiles(files) :
          calls' = [calls EXCEPT ![c] =
                      [phase |-> "scanning", order |-> routeFiles,
                       pending |-> routeFiles, rows |-> <<>>,
                       result |-> <<>>]]
    /\ UNCHANGED <<fallback, walk, links, scan, lastIndex, files, routes, pages, segment, token, content, history>>

\* one turn of the loop of getApiRoutes: readFile resolves and the four
\* while loops run without a break
ExtractNext(c) ==
    /\ calls[c].phase = "scanning"
    /\ Len(calls[c].pending) > 0
    /\ LET filePath == calls[c].pending[1]
           routeMeta == deriveRouteMeta(filePath)
           sanitized == stripComments(files[filePath])
       IN IF Len(routeMeta) = 0
          THEN /\ calls' = [calls EXCEPT ![c].pending = Tail(@)]
               /\ UNCHANGED lastIndex
          ELSE /\ calls' = [calls EXCEPT
                              ![c].pending = Tail(@),
                              ![c].rows = @ \o RouteOf(routeMeta,
                                   extractHttpMethodsFrom(files[filePath],
                                                          lastIndex))]
               /\ lastIndex' = [p \in DOMAIN lastIndex |->
                                  LastIndexAfterLoop(p, sanitized, lastIndex[p])]
    /\ UNCHANGED <<fallback, walk, links, scan, files, routes, pages, segment, token, content, history>>

\* the end of getApiRoutes: the rows are sorted and returned
ReturnApiRoutes(c) ==
    /\ calls[c].phase = "scanning"
    /\ Len(calls[c].pending) = 0
    /\ calls' = [calls EXCEPT ![c].phase = "done",
                              ![c].result = Sort("routes", calls[c].rows)]
    /\ routes' = [returned |-> TRUE, rows |-> Sort("routes", calls[c].rows)]
    /\ UNCHANGED <<fallback, walk, links, scan, lastIndex, files, pages, segment, token, content, history>>

NextOverlap ==
    \/ \E c \in Callers : BeginApiRoutes(c) \/ ExtractNext(c) \/ ReturnApiRoutes(c)
    \/ GetPageRoutes

SpecOverlap == InitOverlap /\ [][NextOverlap]_vars

-----------------------------------------------------------------------------
(* The inspector's mutating endpoints: routes.ts and file-operations.ts.   *)
(* Here a path is absolute: the sequence of its segments below /.          *)

LOADING_TEMPLATE ==
    <<"e","x","p","o","r","t"," ","d","e","f","a","u","l","t"," ","f","u","n","c","t","i","o","n"," ","L","o","a","d","i","n","g","(",")"," ","{","\n">>
    \o <<" "," ","r","e","t","u","r","n"," ","<","d","i","v",">","L","o","a","d","i","n","g",".",".",".","<","/","d","i","v",">","\n">>
    \o <<"}","\n">>

ERROR_TEMPLATE ==
    <<"'","u","s","e"," ","c","l","i","e","n","t","'","\n">>
    \o <<"\n">>
    \o <<"e","x","p","o","r","t"," ","d","e","f","a","u","l","t"," ","f","u","n","c","t","i","o","n"," ","E","r","r","o","r","(","{","\n">>
    \o <<" "," ","e","r","r","o","r",",","\n">>
    \o <<" "," ","r","e","s","e","t",",","\n">>
    \o <<"}",":"," ","{","\n">>
    \o <<" "," ","e","r","r","o","r",":"," ","E","r","r","o","r"," ","&"," ","{"," ","d","i","g","e","s","t","?",":"," ","s","t","r","i","n","g"," ","}","\n">>
    \o <<" "," ","r","e","s","e","t",":"," ","(",")"," ","=",">"," ","v","o","i","d","\n">>
    \o <<"}",")"," ","{","\n">>
    \o <<" "," ","r","e","t","u","r","n"," ","(","\n">>
    \o <<" "," "," "," ","<","d","i","v",">","\n">>
    \o <<" "," "," "," "," "," ","<","h","2",">","S","o","m","e","t","h","i","n","g"," ","w","e","n","t"," ","w","r","o","n","g","!","<","/","h","2",">","\n">>
    \o <<" "," "," "," "," "," ","<","b","u","t","t","o","n"," ","o","n","C","l","i","c","k","=","{","(",")"," ","=",">"," ","r","e","s","e","t","(",")","}",">","T","r","y"," ","a","g","a","i","n","<","/","b","u","t","t","o","n",">","\n">>
    \o <<" "," "," "," ","<","/","d","i","v",">","\n">>
    \o <<" "," ",")","\n">>
    \o <<"}","\n">>

targetDirectory == <<<<"p","r","o","j">>, app>>

Up == <<".", ".">>

\* path.resolve(base, file) for a relative file: the segments of file are
\* applied to base, . staying and .. leaving a directory
RECURSIVE resolve(_, _)
resolve(base, file) ==
    IF Len(file) = 0 THEN base
    ELSE IF file[1] = <<".">> THEN resolve(base, Tail(file))
    ELSE IF file[1] = Up THEN resolve(dirname(base), Tail(file))
    ELSE resolve(Append(base, file[1]), Tail(file))

\* the text of an absolute path
PathText(p) == <<"/">> \o Join(p, <<"/">>)

\* the test of the endpoints:
\* fullPath.startsWith(path.resolve(targetDirectory))
IsWithinTarget(fullPath) ==
    startsWith(PathText(fullPath), PathText(resolve(targetDirectory, <<>>)))

\* path.join(path.dirname(pageFilePath), basename + path.extname(pageFilePath))
FallbackPathFor(pageFilePath, basename) ==
    Append(dirname(pageFilePath),
           basename \o ParsedExt(pageFilePath[Len(pageFilePath)]))

RouteTs == <<"r","o","u","t","e",".","t","s">>
AppCopy == <<"a","p","p","-","c","o","p","y">>

\* the file paths the requests carry, relative to the target directory
InsideParam == <<api, RouteTs>>
SiblingParam == <<Up, AppCopy, RouteTs>>
OutsideParam == <<Up, <<"o","t","h","e","r">>, RouteTs>>
FileParams == {InsideParam, SiblingParam, OutsideParam}

Endpoints == {"DELETE /routes", "POST /routes/methods",
              "DELETE /routes/methods", "POST /pages/loading",
              "POST /pages/error"}

BaseFiles ==
    (resolve(targetDirectory, InsideParam) :> SourceGet)
    @@ (resolve(targetDirectory, SiblingParam) :> SourceGet)
    @@ (resolve(targetDirectory, OutsideParam) :> SourceGet)

OldLoading == <<"o","l","d","\n">>

NoCall == [phase |-> "idle", endpoint |-> "", file |-> <<>>,
           fullPath |-> <<>>, text |-> <<>>]

InitInspector ==
    /\ fallback = <<>>
    /\ walk = <<>>
    /\ links = <<>>
    /\ scan = <<>>
    /\ lastIndex = <<>>
    /\ files \in {BaseFiles,
                  BaseFiles @@ (FallbackPathFor(resolve(targetDirectory, InsideParam),
                                                loading) :> OldLoading)}
    /\ calls = [c \in Callers |-> NoCall]
    /\ history = <<>>
    /\ routes = NotReturned
    /\ pages = NotReturned
    /\ segment = <<>>
    /\ token = <<>>
    /\ content = <<>>

\* the request c is answered: the response and what was done to the files
Answer(c, endpoint, file, fullPath, status, touched, overwrote) ==
    /\ calls' = [calls EXCEPT ![c] = [phase |-> "done", endpoint |-> endpoint,
                                      file |-> file, fullPath |-> fullPath,
                                      text |-> <<>>]]
    /\ history' = Append(history,
                     [op |-> endpoint, file |-> file, fullPath |-> fullPath,
                      status |-> status, touched |-> touched,
                      overwrote |-> overwrote, by |-> c])

\* the request c waits for the file operation it has started
Await(c, phase, endpoint, file, fullPath, text) ==
    /\ calls' = [calls EXCEPT ![c] = [phase |-> phase, endpoint |-> endpoint,
                                      file |-> file, fullPath |-> fullPath,
                                      text |-> text]]
    /\ UNCHANGED history

\* any of the endpoints when the test of the path fails
Forbid(c) ==
    \E endpoint \in Endpoints, file \in FileParams :
        /\ calls[c].phase = "idle"
        /\ ~IsWithinTarget(resolve(targetDirectory, file))
        /\ Answer(c, endpoint, file, resolve(targetDirectory, file), 403,
                  <<>>, FALSE)
        /\ UNCHANGED <<fallback, walk, links, scan, lastIndex, files, routes, pages, segment, token, content>>

\* DELETE /routes: deleteRouteFile is one fs.unlink
DeleteRoutes(c) ==
    \E file \in FileParams :
        LET fullPath == resolve(targetDirectory, file)
        IN /\ calls[c].phase = "idle"
           /\ IsWithinTarget(fullPath)
           /\ IF fullPath \in DOMAIN files
              THEN /\ files' = [p \in DOMAIN files \ {fullPath} |-> files[p]]
                   /\ Answer(c, "DELETE /routes", file, fullPath, 200,
                             <<fullPath>>, FALSE)
              ELSE /\ UNCHANGED files
                   /\ Answer(c, "DELETE /routes", file, fullPath, 500,
                             <<fullPath>>, FALSE)
           /\ UNCHANGED <<fallback, walk, links, scan, lastIndex, routes, pages, segment, token, content>>

\* POST and DELETE /routes/methods up to the read of the file
BeginMethods(c) ==
    \E endpoint \in {"POST /routes/methods", "DELETE /routes/methods"},
       file \in FileParams :
        LET fullPath == resolve(targetDirectory, file)
        IN /\ calls[c].phase = "idle"
           /\ IsWithinTarget(fullPath)
           /\ IF fullPath \in DOMAIN files
              THEN Await(c, "read", endpoint, file, fullPath, files[fullPath])
              ELSE Answer(c, endpoint, file, fullPath, 500, <<fullPath>>, FALSE)
           /\ UNCHANGED <<fallback, walk, links, scan, lastIndex, files, routes, pages, segment, token, content>>

\* the method the requests to /routes/methods carry
MethodParam(endpoint) == IF endpoint = "POST /routes/methods" THEN POST ELSE GET

\* POST and DELETE /routes/methods from the read on
FinishMethods(c) ==
    /\ calls[c].phase = "read"
    /\ LET r == Outcome(IF calls[c].endpoint = "POST /routes/methods"
                        THEN "add" ELSE "remove",
                        calls[c].text, MethodParam(calls[c].endpoint))
       IN IF r.wrote
          THEN /\ files' = [p \in DOMAIN files \cup {calls[c].fullPath} |->
                              IF p = calls[c].fullPath THEN r.written
                              ELSE files[p]]
               /\ Answer(c, calls[c].endpoint, calls[c].file, calls[c].fullPath,
                         200, <<calls[c].fullPath>>,
                         calls[c].fullPath \in DOMAIN files)
          ELSE /\ UNCHANGED files
               /\ Answer(c, calls[c].endpoint, calls[c].file, calls[c].fullPath,
                         500, <<calls[c].fullPath>>, FALSE)
    /\ UNCHANGED <<fallback, walk, links, scan, lastIndex, routes, pages, segment, token, content>>

BasenameOf(endpoint) == IF endpoint = "POST /pages/loading" THEN loading ELSE error
TemplateOf(endpoint) ==
    IF endpoint = "POST /pages/loading" THEN LOADING_TEMPLATE ELSE ERROR_TEMPLATE

\* POST /pages/loading and /pages/error up to the end of ensureFileAbsent:
\* fs.access either finds the file, and FileExistsError is thrown and caught
\* by the endpoint, or it does not
BeginCreate(c) ==
    \E endpoint \in {"POST /pages/loading", "POST /pages/error"},
       file \in FileParams :
        LET fullPath == resolve(targetDirectory, file)
            created == FallbackPathFor(fullPath, BasenameOf(endpoint))
        IN /\ calls[c].phase = "idle"
           /\ IsWithinTarget(fullPath)
           /\ IF created \in DOMAIN files
              THEN Answer(c, endpoint, file, created, 500, <<created>>, FALSE)
              ELSE Await(c, "absent", endpoint, file, created, <<>>)
           /\ UNCHANGED <<fallback, walk, links, scan, lastIndex, files, routes, pages, segment, token, content>>

\* createLoadingFile and createErrorFile after ensureFileAbsent:
\* fs.writeFile with the template, and the response
FinishCreate(c) ==
    /\ calls[c].phase = "absent"
    /\ files' = [p \in DOMAIN files \cup {calls[c].fullPath} |->
                    IF p = calls[c].fullPath THEN TemplateOf(calls[c].endpoint)
                    ELSE files[p]]
    /\ Answer(c, calls[c].endpoint, calls[c].file, calls[c].fullPath, 200,
              <<calls[c].fullPath>>, calls[c].fullPath \in DOMAIN files)
    /\ UNCHANGED <<fallback, walk, links, scan, lastIndex, routes, pages, segment, token, content>>

NextInspector ==
    \E c \in Callers :
        \/ Forbid(c)
        \/ DeleteRoutes(c)
        \/ BeginMethods(c)
        \/ FinishMethods(c)
        \/ BeginCreate(c)
        \/ FinishCreate(c)

SpecInspector == InitInspector /\ [][NextInspector]_vars

-----------------------------------------------------------------------------
(* The two scanners of removeHttpMethod character by character: one step   *)
(* is one turn of the for loop of findMatchingBrace or findStatementEnd    *)

\* the number of characters behind the opening of the scanned text
MaxScanLen == 2

ScanAlphabet == {"'", "\"", Backquote, "\\", "/", "*", "\n", "}", ";", "a"}

RECURSIVE ScanTails(_)
ScanTails(n) ==
    IF n = 0 THEN {<<>>}
    ELSE ScanTails(n - 1)
         \cup {Append(t, ch) : t \in ScanTails(n - 1), ch \in ScanAlphabet}

\* the scanned text starts with a brace, and then code, a comment or a string
ScanOpenings == {<<"{">>, <<"{", "/", "*">>, <<"{", "/", "/">>, <<"{", "'">>,
                 <<"{", "\"">>, <<"{", Backquote>>}

ScanTexts == {o \o t : o \in ScanOpenings, t \in ScanTails(MaxScanLen)}

\* the loop variables before the first turn; i is the 0-based index of the
\* character the next turn looks at, running says that no return was reached
ScanStart(kind) ==
    [kind |-> kind, i |-> 0, running |-> TRUE, result |-> 0,
     inSingle |-> FALSE, inDouble |-> FALSE, inTemplate |-> FALSE,
     inLineComment |-> FALSE, inBlockComment |-> FALSE,
     brace |-> 0, paren |-> 0, bracket |-> 0]

\* the test of a toggling branch without its look at the character before
TogglesStringAfterBackslash(char, prev, quote, inOther1, inOther2) ==
    ~inOther1 /\ ~inOther2 /\ char = quote

\* the test of a branch that toggles a string state: the quote of the kind,
\* not behind a backslash, and no string of another kind open
TogglesString(char, prev, quote, inOther1, inOther2) ==
    ~inOther1 /\ ~inOther2 /\ char = quote /\ prev # "\\"

\* the counters of findStatementEnd after a character of code
Counted(st, char) ==
    CASE char = "{" -> [st EXCEPT !.brace = @ + 1]
      [] char = "}" -> [st EXCEPT !.brace = IF @ > 0 THEN @ - 1 ELSE @]
      [] char = "(" -> [st EXCEPT !.paren = @ + 1]
      [] char = ")" -> [st EXCEPT !.paren = IF @ > 0 THEN @ - 1 ELSE @]
      [] char = "[" -> [st EXCEPT !.bracket = @ + 1]
      [] char = "]" -> [st EXCEPT !.bracket = IF @ > 0 THEN @ - 1 ELSE @]
      [] OTHER -> st

Returned(st, value) == [st EXCEPT !.running = FALSE, !.result = value]

\* one turn of the loop on the character at i, and the i++ of the for
ScanTurn(code, st) ==
    LET char == code[st.i + 1]
        prev == At(code, st.i)
        next == At(code, st.i + 2)
        level == st.brace = 0 /\ st.paren = 0 /\ st.bracket = 0
        Continue(s) == [s EXCEPT !.i = @ + 1]
    IN IF st.inLineComment
       THEN IF char = "\n"
            THEN IF st.kind = "statement" /\ level
                 THEN Returned([st EXCEPT !.inLineComment = FALSE], st.i + 1)
                 ELSE Continue([st EXCEPT !.inLineComment = FALSE])
            ELSE Continue(st)
       ELSE IF st.inBlockComment
       THEN IF prev = "*" /\ char = "/"
            THEN Continue([st EXCEPT !.inBlockComment = FALSE])
            ELSE Continue(st)
       ELSE IF ~st.inSingle /\ ~st.inDouble /\ ~st.inTemplate
               /\ char = "/" /\ next = "/"
       THEN [st EXCEPT !.inLineComment = TRUE, !.i = @ + 2]
       ELSE IF ~st.inSingle /\ ~st.inDouble /\ ~st.inTemplate
               /\ char = "/" /\ next = "*"
       THEN [st EXCEPT !.inBlockComment = TRUE, !.i = @ + 2]
       ELSE IF TogglesString(char, prev, "'", st.inDouble, st.inTemplate)
       THEN Continue([st EXCEPT !.inSingle = ~@])
       ELSE IF TogglesString(char, prev, "\"", st.inSingle, st.inTemplate)
       THEN Continue([st EXCEPT !.inDouble = ~@])
       ELSE IF TogglesString(char, prev, Backquote, st.inSingle, st.inDouble)
       THEN Continue([st EXCEPT !.inTemplate = ~@])
       ELSE IF st.inSingle \/ st.inDouble \/ st.inTemplate
       THEN Continue(st)
       ELSE IF st.kind = "brace"
       THEN IF char = "{" THEN Continue([st EXCEPT !.brace = @ + 1])
            ELSE IF char = "}"
            THEN IF st.brace - 1 = 0
                 THEN Returned([st EXCEPT !.brace = @ - 1], st.i)
                 ELSE Continue([st EXCEPT !.brace = @ - 1])
            ELSE Continue(st)
       ELSE IF char = ";" /\ level THEN Returned(st, st.i + 1)
       ELSE Continue(Counted(st, char))

InitScan ==
    /\ fallback = <<>>
    /\ walk = <<>>
    /\ links = <<>>
    /\ content \in ScanTexts
    /\ scan \in {ScanStart("brace"), ScanStart("statement")}
    /\ lastIndex = <<>>
    /\ calls = <<>>
    /\ history = <<>>
    /\ files = <<>>
    /\ routes = NotReturned
    /\ pages = NotReturned
    /\ segment = <<>>
    /\ token = <<>>

\* a turn of the loop of findMatchingBrace, or its return -1 at the end
MatchingBraceTurn ==
    /\ scan.kind = "brace"
    /\ scan.running
    /\ scan' = IF scan.i < Len(content) THEN ScanTurn(content, scan)
               ELSE Returned(scan, -1)
    /\ UNCHANGED <<fallback, walk, links, lastIndex, calls, content, history, files, routes, pages, segment, token>>

\* a turn of the loop of findStatementEnd, or its return code.length
StatementEndTurn ==
    /\ scan.kind = "statement"
    /\ scan.running
    /\ scan' = IF scan.i < Len(content) THEN ScanTurn(content, scan)
               ELSE Returned(scan, Len(content))
    /\ UNCHANGED <<fallback, walk, links, lastIndex, calls, content, history, files, routes, pages, segment, token>>

NextScan == MatchingBraceTurn \/ StatementEndTurn

SpecScan == InitScan /\ [][NextScan]_vars

-----------------------------------------------------------------------------
(* findPageFiles and resolveFallbackInfo step by step, on trees that hold  *)
(* symbolic links back to a directory above them.  A step of the walk is   *)
(* the readdir of a directory, one turn of the loop over its entries, or   *)
(* the return of a call of walk; a step of the fallback resolution is one  *)
(* turn of its while loop.                                                 *)

\* the number of calls of readdir after which the walk is no longer followed
MaxListings == 8

WalkFiles == {
    <<<<"a","p","p">>, <<"p","a","g","e",".","t","s","x">>>>,
    <<<<"a","p","p">>, <<"a">>, <<"p","a","g","e",".","t","s","x">>>>,
    <<<<"a","p","p">>, <<"a">>, <<"b">>, <<"p","a","g","e",".","t","s","x">>>>,
    <<<<"a","p","p">>, <<"a">>, <<"l","o","a","d","i","n","g",".","t","s","x">>>>,
    <<<<"n","o","d","e","_","m","o","d","u","l","e","s">>, <<"p","a","g","e",".","t","s","x">>>>,
    <<<<"a","p","p">>, <<"a">>, <<"n","o","d","e","_","m","o","d","u","l","e","s">>, <<"p","a","g","e",".","t","s","x">>>>}

\* a symbolic link and the directory it points to
WalkLinks == {
    <<<<<<"a","p","p">>, <<"a">>, <<"u","p">>>>, <<<<"a","p","p">>>>>>,
    <<<<<<"a","p","p">>, <<"a">>, <<"b">>, <<"t","o","p">>>>, <<>>>>,
    <<<<<<"a","p","p">>, <<"s","e","l","f">>>>, <<<<"a","p","p">>>>>>}

WalkTrees ==
    {[p \in S |-> <<>>] : S \in {T \in SUBSET WalkFiles :
                                    Cardinality(T) >= 1
                                    /\ Cardinality(T) <= MaxFiles}}

\* the links that can be made in the tree fs: the link lies in a directory
\* of the tree and points to a directory of the tree
LinksOf(fs) ==
    {[l \in {e[1] : e \in L} |-> (CHOOSE e \in L : e[1] = l)[2]] :
        L \in SUBSET {e \in WalkLinks :
                         /\ dirname(e[1]) = <<>> \/ IsDirectory(fs, dirname(e[1]))
                         /\ IsDirectory(fs, e[2])}}

\* the location a path names once the links on the way are resolved
RECURSIVE RealFrom(_, _, _)
RealFrom(lk, resolved, rest) ==
    IF rest = <<>> THEN resolved
    ELSE LET q == Append(resolved, Head(rest))
         IN RealFrom(lk, IF q \in DOMAIN lk THEN lk[q] ELSE q, Tail(rest))

RealPath(lk, p) == RealFrom(lk, <<>>, p)

\* the names fs.readdir(current) returns: the files and directories of the
\* directory current names, and the links that lie in it
NamesIn(fs, lk, current) ==
    Entries(fs, RealPath(lk, current))
    \cup {l[Len(l)] : l \in {m \in DOMAIN lk :
                                dirname(m) = RealPath(lk, current)}}

\* Dirent.isDirectory() as fs.stat would answer it, looking through a link
DirentIsDirectoryFollowing(fs, lk, entryPath) ==
    LET real == Append(RealPath(lk, dirname(entryPath)),
                       entryPath[Len(entryPath)])
    IN IsDirectory(fs, real)
       \/ (real \in DOMAIN lk /\ (lk[real] = <<>> \/ IsDirectory(fs, lk[real])))

\* Dirent.isDirectory() and Dirent.isFile() of an entry of readdir with
\* withFileTypes: the type of the entry itself, so both are false for a link
DirentIsDirectory(fs, lk, entryPath) ==
    IsDirectory(fs, Append(RealPath(lk, dirname(entryPath)),
                           entryPath[Len(entryPath)]))

DirentIsFile(fs, lk, entryPath) ==
    IsFile(fs, Append(RealPath(lk, dirname(entryPath)),
                      entryPath[Len(entryPath)]))

Frame(current) == [current |-> current, listed |-> FALSE, entries |-> <<>>]

NoFallback == [phase |-> "idle", directory |-> <<>>, basename |-> <<>>,
               appRootPath |-> <<>>, current |-> <<>>, isFirst |-> TRUE,
               turns |-> 0, result |-> [status |-> "", path |-> <<>>]]

InitWalk ==
    /\ files \in WalkTrees
    /\ links \in LinksOf(files)
    /\ walk = [stack |-> <<Frame(<<>>)>>, listed |-> <<>>, results |-> <<>>]
    /\ fallback = NoFallback
    /\ scan = <<>>
    /\ lastIndex = <<>>
    /\ calls = <<>>
    /\ history = <<>>
    /\ routes = NotReturned
    /\ pages = NotReturned
    /\ segment = <<>>
    /\ token = <<>>
    /\ content = <<>>

Top == walk.stack[Len(walk.stack)]

\* await fs.readdir(current, { withFileTypes: true })
ReadDir ==
    /\ walk.stack # <<>>
    /\ ~Top.listed
    /\ Len(walk.listed) < MaxListings
    /\ \E order \in Orderings(NamesIn(files, links, Top.current)) :
          walk' = [walk EXCEPT
                      !.stack[Len(walk.stack)] =
                          [Top EXCEPT !.listed = TRUE, !.entries = order],
                      !.listed = Append(@, Top.current)]
    /\ UNCHANGED <<fallback, links, scan, lastIndex, calls, files, routes, pages, segment, token, content, history>>

\* one turn of the loop over the entries
VisitEntry ==
    /\ walk.stack # <<>>
    /\ Top.listed
    /\ Top.entries # <<>>
    /\ LET name == Head(Top.entries)
           entryPath == Append(Top.current, name)
           rest == [walk EXCEPT !.stack[Len(walk.stack)].entries = Tail(@)]
       IN walk' =
            IF DirentIsDirectory(files, links, entryPath)
            THEN IF name \in SKIP_DIRECTORIES THEN rest
                 ELSE [rest EXCEPT !.stack = Append(@, Frame(entryPath))]
            ELSE IF ~DirentIsFile(files, links, entryPath) THEN rest
            ELSE IF ~isPageFile(name) THEN rest
            ELSE [rest EXCEPT !.results = Append(@, entryPath)]
    /\ UNCHANGED <<fallback, links, scan, lastIndex, calls, files, routes, pages, segment, token, content, history>>

\* the loop over the entries is over: the call of walk returns
ReturnWalk ==
    /\ walk.stack # <<>>
    /\ Top.listed
    /\ Top.entries = <<>>
    /\ walk' = [walk EXCEPT !.stack = SubSeq(@, 1, Len(@) - 1)]
    /\ UNCHANGED <<fallback, links, scan, lastIndex, calls, files, routes, pages, segment, token, content, history>>

\* derivePageMeta calls resolveFallbackInfo for a page file found
BeginFallback ==
    /\ walk.stack = <<>>
    /\ fallback.phase = "idle"
    /\ \E filePath \in Range(walk.results), basename \in {loading, error} :
          /\ AppIndex(filePath) > 0
          /\ fallback' = [NoFallback EXCEPT
                             !.phase = "running",
                             !.directory = dirname(filePath),
                             !.basename = basename,
                             !.appRootPath = Slice(filePath, 1, AppIndex(filePath)),
                             !.current = dirname(filePath)]
    /\ UNCHANGED <<walk, links, scan, lastIndex, calls, files, routes, pages, segment, token, content, history>>

\* one test of the while condition and, when it holds, one turn of the loop
FallbackTurn ==
    /\ fallback.phase = "running"
    /\ fallback' =
         IF ~isWithinAppRoot(fallback.current, fallback.appRootPath)
         THEN [fallback EXCEPT !.phase = "returned",
                               !.result = [status |-> "missing",
                                           path |-> <<>>]]
         ELSE LET found == findFallbackFile(files, fallback.current,
                                            fallback.basename)
                  turned == [fallback EXCEPT !.turns = @ + 1]
              IN IF found # <<>>
                 THEN [turned EXCEPT
                          !.phase = "returned",
                          !.result = [status |-> IF fallback.isFirst
                                                 THEN "co-located"
                                                 ELSE "inherited",
                                      path |-> NormalizedFile(found[1])]]
                 ELSE IF pathsEqual(fallback.current, fallback.appRootPath)
                         \/ pathsEqual(dirname(fallback.current), fallback.current)
                 THEN [turned EXCEPT !.phase = "returned",
                                     !.result = [status |-> "missing",
                                                 path |-> <<>>]]
                 ELSE [turned EXCEPT !.current = dirname(@),
                                     !.isFirst = FALSE]
    /\ UNCHANGED <<walk, links, scan, lastIndex, calls, files, routes, pages, segment, token, content, history>>

NextWalk == ReadDir \/ VisitEntry \/ ReturnWalk \/ BeginFallback \/ FallbackTurn

\* every await of the walk and of the fallback resolution resolves
SpecWalk == InitWalk /\ [][NextWalk]_vars /\ WF_vars(NextWalk)

-----------------------------------------------------------------------------
(* Properties of route discovery                                           *)

\* the file of the tree a row was made from
FileOfRow(row) == CHOOSE p \in DOMAIN files : NormalizedFile(p) = row.file

\* the routing root of a file: its path up to the last segment named app
RoutingRoot(p) ==
    SubSeq(p, 1, CHOOSE k \in 1..Len(p) :
                    p[k] = app /\ \A j \in (k + 1)..Len(p) : p[j] # app)

\* directory d holds a fallback file of the kind
HasFallback(d, kind) ==
    \E ext \in Range(FALLBACK_EXTENSIONS) : Append(d, kind \o ext) \in DOMAIN files

\* the directories from the routing root down to the directory of p
DirectoriesUpToRoot(p) ==
    {SubSeq(p, 1, k) : k \in Len(RoutingRoot(p))..(Len(p) - 1)}

FallbackStatusAsDefined(p, kind, status) ==
    LET dir == dirname(p)
    IN /\ status = "co-located" <=> HasFallback(dir, kind)
       /\ status = "inherited" <=>
             /\ ~HasFallback(dir, kind)
             /\ \E d \in DirectoriesUpToRoot(p) \ {dir} : HasFallback(d, kind)
       /\ status = "missing" <=>
             \A d \in DirectoriesUpToRoot(p) : ~HasFallback(d, kind)

\* C1: for every view route and each fallback kind, the status is co-located
\* iff a fallback file of the kind is in the view file's own directory,
\* inherited iff none is there but one is in a strict ancestor at or below
\* the routing root, and missing iff none is in any directory from the view
\* file's directory up to and including the routing root.
ClaimC1 ==
    pages.returned =>
        \A i \in DOMAIN pages.rows :
            /\ FallbackStatusAsDefined(FileOfRow(pages.rows[i]), loading,
                                       pages.rows[i].loading)
            /\ FallbackStatusAsDefined(FileOfRow(pages.rows[i]), error,
                                       pages.rows[i].error)

\* group and parallel-slot segments
IsExcludedSegment(seg) ==
    \/ seg[1] = "(" /\ seg[Len(seg)] = ")"
    \/ seg[1] = "@"

\* the directory segments of p strictly below its routing root
SegmentsBelowRoot(p) == SubSeq(p, Len(RoutingRoot(p)) + 1, Len(p) - 1)

\* the tokens of a route path: what stands between its slashes
TokensOf(routePath) ==
    IF routePath = <<"/">> THEN <<>>
    ELSE Split(SubSeq(routePath, 2, Len(routePath)), "/")

NotExcluded(seg) == ~IsExcludedSegment(seg)

PathLeavesOutExcluded(row) ==
    LET kept == SelectSeq(SegmentsBelowRoot(FileOfRow(row)), NotExcluded)
    IN /\ row.path[1] = "/"
       /\ Len(TokensOf(row.path)) = Len(kept)
       /\ \A k \in DOMAIN kept : TokensOf(row.path)[k] = transformSegment(kept[k])

\* C2: no route path in either table has a token for a directory segment
\* that is wrapped in parentheses or starts with @: the path is made of the
\* tokens of the other segments only, app/(marketing)/about/page.tsx has the
\* path /about, and a view file with no other segment has the path /.
ClaimC2 ==
    /\ \A i \in DOMAIN pages.rows : PathLeavesOutExcluded(pages.rows[i])
    /\ \A i \in DOMAIN routes.rows : PathLeavesOutExcluded(routes.rows[i])
    /\ \A i \in DOMAIN pages.rows :
          /\ pages.rows[i].file = <<"a","p","p","/","(","m","a","r","k","e","t","i","n","g",")","/","a","b","o","u","t","/","p","a","g","e",".","t","s","x">>
                => pages.rows[i].path = <<"/","a","b","o","u","t">>
          /\ pages.rows[i].file \in {<<"a","p","p","/","@","m","o","d","a","l","/","p","a","g","e",".","j","s">>,
                                     <<"a","p","p","/","p","a","g","e",".","t","s","x">>}
                => pages.rows[i].path = <<"/">>

WitnessC2 ==
    /\ \E i \in DOMAIN pages.rows :
          pages.rows[i].file = <<"a","p","p","/","(","m","a","r","k","e","t","i","n","g",")","/","a","b","o","u","t","/","p","a","g","e",".","t","s","x">>
    /\ \E i \in DOMAIN pages.rows :
          pages.rows[i].file = <<"a","p","p","/","@","m","o","d","a","l","/","p","a","g","e",".","j","s">>
    /\ \E i \in DOMAIN routes.rows :
          routes.rows[i].file = <<"a","p","p","/","(","a",")","/","a","p","i","/","x","/","r","o","u","t","e",".","t","s">>

\* a <= b under localeCompare
Before(a, b) == localeCompare(a, b) <= 0
Same(a, b) == localeCompare(a, b) = 0

\* C4: every emitted table is ordered by route path and, among
\* rows of the same route path, by file path, the methods string breaking
\* what ties remain between handler routes.
ClaimC4 ==
    /\ \A i, j \in DOMAIN pages.rows :
          i < j => /\ Before(pages.rows[i].path, pages.rows[j].path)
                   /\ Same(pages.rows[i].path, pages.rows[j].path)
                         => Before(pages.rows[i].file, pages.rows[j].file)
    /\ \A i, j \in DOMAIN routes.rows :
          i < j => /\ Before(routes.rows[i].path, routes.rows[j].path)
                   /\ Same(routes.rows[i].path, routes.rows[j].path)
                         => Before(routes.rows[i].file, routes.rows[j].file)

\* C5: for a fixed tree, each emitted table is the same, rows and order,
\* for every order in which the walker discovers the files.
ClaimC5 ==
    /\ routes.returned =>
          \A routeFiles \in findRouteFiles(files) :
              getApiRoutes(files, routeFiles) = routes.rows
    /\ pages.returned =>
          \A pageFiles \in findPageFiles(files) :
              getPageRoutes(files, pageFiles) = pages.rows

\* position of a verb in the canonical order
CanonicalRank(m) == CHOOSE k \in DOMAIN METHOD_ORDER : METHOD_ORDER[k] = m

\* C6: every emitted handler route has a non-empty methods list of verbs of
\* the fixed set, without duplicates and in the canonical order; a route
\* file in which no recognised verb export is found is not emitted.
ClaimC6 ==
    /\ \A i \in DOMAIN routes.rows :
          LET methods == routes.rows[i].methods
          IN /\ Len(methods) > 0
             /\ \A k \in DOMAIN methods : methods[k] \in HTTP_METHODS
             /\ \A k, l \in DOMAIN methods :
                   k < l => CanonicalRank(methods[k]) < CanonicalRank(methods[l])
    /\ \A p \in DOMAIN files :
          files[p] = SourceNoMethod =>
              \A i \in DOMAIN routes.rows : routes.rows[i].file # NormalizedFile(p)

\* a table with a row of two verbs was emitted for a tree that also holds
\* a handler file without any verb below app/api
WitnessC6 ==
    /\ routes.returned
    /\ \E i \in DOMAIN routes.rows : Len(routes.rows[i].methods) = 2
    /\ \E p \in DOMAIN files :
          files[p] = SourceNoMethod /\ deriveRouteMeta(p) # <<>>

-----------------------------------------------------------------------------
(* Properties of the segment classifier                                    *)

\* C3: the bracket rules apply in the order optional catch-all, catch-all,
\* dynamic: for every non-empty parameter name, [[...name]] yields :name*?,
\* [...name] yields :name* and [name] yields :name, and a segment without
\* brackets is returned unchanged.
ClaimC3 ==
    /\ \A name \in Names :
          /\ segment = <<"[","[",".",".",".">> \o name \o <<"]","]">>
                => token = <<":">> \o name \o <<"*","?">>
          /\ segment = <<"[",".",".",".">> \o name \o <<"]">>
                => token = <<":">> \o name \o <<"*">>
          /\ segment = <<"[">> \o name \o <<"]">>
                => token = <<":">> \o name
    /\ (\A k \in DOMAIN segment : segment[k] \notin {"[", "]"})
          => token = segment

WitnessC3 ==
    /\ segment = <<"[","[",".",".",".","a","b","]","]">>
    /\ token = <<":","a","b","*","?">>

-----------------------------------------------------------------------------
(* Properties of the mutation engine                                       *)

\* the verbs the method extractor reports for a text
VerbsOf(text) == Range(extractHttpMethods(text))

\* the last call and the text it left in the file
LastCall == history[Len(history)]
Succeeded(call) == call.result.error = ""

\* C7: for every handler file and verb the extractor does not report for
\* it, AddMethod followed at once by RemoveMethod of the verb both succeed
\* and leave a file for which the extractor does not report the verb and
\* reports every verb it reported before the AddMethod call.
ClaimC7 ==
    \A k \in 1..(Len(history) - 1) :
        LET add == history[k]
            remove == history[k + 1]
            after == IF remove.result.wrote THEN remove.result.written
                     ELSE remove.before
        IN (/\ add.op = "add" /\ remove.op = "remove"
            /\ add.method = remove.method
            /\ add.method \in HTTP_METHODS
            /\ add.method \notin VerbsOf(add.before))
           => /\ Succeeded(add) /\ Succeeded(remove)
              /\ add.method \notin VerbsOf(after)
              /\ VerbsOf(add.before) \subseteq VerbsOf(after)

\* the lines of a text without the white space at their ends, blank lines
\* left out
RECURSIVE MapTrimEnd(_)
MapTrimEnd(lines) ==
    IF Len(lines) = 0 THEN <<>>
    ELSE <<trimEnd(lines[1])>> \o MapTrimEnd(Tail(lines))

LinesOf(text) == SelectSeq(MapTrimEnd(Split(text, "\n")), NonEmpty)

\* function declarations of the files, from the export keyword to the brace
\* that closes the body
FunctionDeclarations(method) ==
    {d \in {FunctionGet, FunctionGetWithParams} : method = GET}
    \cup {trim(MethodTemplate(method))}

\* the index at which the first function declaration of the method starts
DeclarationStart(text, method) ==
    LET Starts(j) == \E d \in FunctionDeclarations(method) : LitAt(text, j, d)
    IN First(1, Len(text), Starts)

DeclarationAt(text, method) ==
    CHOOSE d \in FunctionDeclarations(method) :
        LitAt(text, DeclarationStart(text, method), d)

\* the text holds function <method> in front of index i
FunctionTextBefore(text, method, i) ==
    \E j \in 1..(i - 1) : LitAt(text, j, kwFunction \o <<" ">> \o method)

\* C8: when RemoveMethod excises a function-shaped export of the verb, what
\* it removes runs from the export keyword to the brace that closes the
\* body of that function (braces in strings, template literals and comments
\* not counted), and apart from white space nothing else is removed.
ClaimC8 ==
    \A k \in DOMAIN history :
        LET call == history[k]
            start == DeclarationStart(call.before, call.method)
            decl == DeclarationAt(call.before, call.method)
        IN (/\ call.op = "remove"
            /\ call.method \in HTTP_METHODS
            /\ start # 0
            /\ ~FunctionTextBefore(call.before, call.method, start + 7))
           => /\ Succeeded(call)
              /\ LinesOf(call.result.written) =
                    LinesOf(Slice(call.before, 1, start - 1)
                            \o Slice(call.before, start + Len(decl),
                                     Len(call.before)))

\* the words of a specifier: the original name and, behind "as", the alias
WordsOf(entry) == SelectSeq(Split(entry, " "), NonEmpty)

NamesVerb(entry, method) ==
    \/ toUpperCase(WordsOf(entry)[1]) = method
    \/ /\ Len(WordsOf(entry)) = 3
       /\ toUpperCase(WordsOf(entry)[2]) = <<"A", "S">>
       /\ toUpperCase(WordsOf(entry)[3]) = method

\* where the named-export list of a line starts, 0 for a line without one;
\* the list runs to the end of the line
ListStart(line) ==
    LET Opens(j) == LitAt(line, j, <<"e","x","p","o","r","t"," ","{">>)
    IN IF endsWith(line, <<"}">>) THEN First(1, Len(line), Opens) ELSE 0

IsListLine(line) == ListStart(line) # 0

SpecifiersOf(line) ==
    SelectSeq(MapTrim(Split(Slice(line, ListStart(line) + 8, Len(line) - 1), ",")),
              NonEmpty)

\* the first list line of the lines that names the method, 0 if none does
FirstListNaming(lines, method) ==
    LET Naming(j) == /\ IsListLine(lines[j])
                    /\ \E e \in Range(SpecifiersOf(lines[j])) : NamesVerb(e, method)
    IN First(1, Len(lines), Naming)

\* the list line without the specifiers that name the method; no line at
\* all when nothing is left of it
PrunedLine(line, method) ==
    LET Stays(e) == ~NamesVerb(e, method)
        left == SelectSeq(SpecifiersOf(line), Stays)
        front == Slice(line, 1, ListStart(line) - 1)
        rewritten == IF Len(left) = 0 THEN front
                     ELSE front \o <<"e","x","p","o","r","t"," ","{"," ">>
                          \o Join(left, <<",", " ">>) \o <<" ", "}">>
    IN SelectSeq(<<trimEnd(rewritten)>>, NonEmpty)

\* the text declares the method as a function or a variable somewhere
DeclaresVerb(text, method) ==
    \E j \in 1..Len(text), kw \in {kwFunction, kwConst, kwLet, kwVar} :
        LitAt(text, j, kw \o <<" ">> \o method)

ClaimC10 ==
    \A k \in DOMAIN history :
        LET call == history[k]
        IN (/\ call.op = "add"
            /\ call.method \in HTTP_METHODS
            /\ call.method \in VerbsOf(call.before))
           => /\ call.result.error = "Method already exists"
              /\ ~call.result.wrote

\* C11: AddMethod and RemoveMethod called with a verb that, upper-cased, is
\* not one of the seven recognised verbs fail with InvalidMethodError before
\* the file is read or written.
ClaimC11 ==
    \A k \in DOMAIN history :
        toUpperCase(history[k].method) \notin HTTP_METHODS
            => /\ history[k].result.error = "Invalid HTTP method"
               /\ ~history[k].result.read
               /\ ~history[k].result.wrote
               /\ k < Len(history) => history[k + 1].before = history[k].before
               /\ k = Len(history) => content = history[k].before

\* both operations were called with TRACE
WitnessC11 ==
    /\ Len(history) = 2
    /\ history[1].op = "add" /\ history[1].method = <<"T","R","A","C","E">>
    /\ history[2].op = "remove" /\ history[2].method = <<"T","R","A","C","E">>

\* the bytes of the file after the k-th call
ContentAfter(k) == IF k < Len(history) THEN history[k + 1].before ELSE content

\* C12: whenever AddMethod or RemoveMethod fails (the verb exists already,
\* no shape of the verb is found, or the opening or closing brace of a
\* matched export head cannot be located), nothing is written and the file
\* holds the bytes it held before the call.
ClaimC12 ==
    \A k \in DOMAIN history :
        ~Succeeded(history[k])
            => /\ ~history[k].result.wrote
               /\ ContentAfter(k) = history[k].before

\* a removal failed for want of the closing brace and the next one for want
\* of the block
WitnessC12 ==
    /\ Len(history) = 2
    /\ history[1].result.error = "Unable to locate closing brace"
    /\ history[2].result.error = "Unable to locate block"
    /\ content = history[1].before

\* C13: after a successful RemoveMethod of a verb, whichever shape was
\* excised, every other verb the extractor reported for the file before the
\* call is still reported for it afterwards.
ClaimC13 ==
    \A k \in DOMAIN history :
        (/\ history[k].op = "remove"
         /\ Succeeded(history[k]))
           => VerbsOf(history[k].before) \ {toUpperCase(history[k].method)}
                 \subseteq VerbsOf(history[k].result.written)

-----------------------------------------------------------------------------
(* Properties of the routing root and the fallback resolver                *)

\* the fallback path a row reports for a kind, and its status
StatusOf(row, kind) == IF kind = loading THEN row.loading ELSE row.error
PathOf(row, kind) == IF kind = loading THEN row.loadingPath ELSE row.errorPath

\* the files of the kind in the directories from the routing root of p down
\* to the directory of p, by their normalised paths
FallbackPathsWithinRoot(p, kind) ==
    {NormalizedFile(Append(d, kind \o ext)) :
        d \in DirectoriesUpToRoot(p), ext \in Range(FALLBACK_EXTENSIONS)}

\* C14: fallback resolution never probes a directory that is neither the
\* routing root nor below it: a loading or error file strictly above the
\* routing root (in the scan root, or in an outer app directory when app
\* directories are nested) never yields co-located or inherited for a view
\* under that routing root.
ClaimC14 ==
    \A i \in DOMAIN pages.rows : \A kind \in {loading, error} :
        LET row == pages.rows[i]
            p == FileOfRow(row)
        IN /\ StatusOf(row, kind) \in {"co-located", "inherited"}
                => /\ \E d \in DirectoriesUpToRoot(p) : HasFallback(d, kind)
                   /\ PathOf(row, kind) \in FallbackPathsWithinRoot(p, kind)
           /\ (\A d \in DirectoriesUpToRoot(p) : ~HasFallback(d, kind))
                => StatusOf(row, kind) = "missing"

\* a view below the inner app directory was listed for a tree with loading
\* files in the scan root and in the outer app directory
WitnessC14 ==
    /\ pages.returned
    /\ \E i \in DOMAIN pages.rows :
          /\ pages.rows[i].file = <<"a","p","p","/","s","h","o","p","/","a","p","p","/","p","a","g","e",".","t","s","x">>
          /\ pages.rows[i].loading = "missing"
    /\ <<<<"l","o","a","d","i","n","g",".","t","s","x">>>> \in DOMAIN files
    /\ <<<<"a","p","p">>, <<"l","o","a","d","i","n","g",".","t","s","x">>>> \in DOMAIN files

\* the directory nearest to the file p, from its own directory up to the
\* routing root, that holds a fallback file of the kind
NearestWithFallback(p, kind) ==
    CHOOSE d \in DirectoriesUpToRoot(p) :
        /\ HasFallback(d, kind)
        /\ \A e \in DirectoriesUpToRoot(p) :
              HasFallback(e, kind) => Len(e) <= Len(d)

\* the fallback file of directory d whose extension comes first in the
\* declared order
PreferredFallback(d, kind) ==
    LET j == Least({k \in DOMAIN FALLBACK_EXTENSIONS :
                      Append(d, kind \o FALLBACK_EXTENSIONS[k]) \in DOMAIN files})
    IN Append(d, kind \o FALLBACK_EXTENSIONS[j])

RightmostApp(p) == Greatest({k \in 1..Len(p) : p[k] = app})

\* the row's path is made of the directory segments after the rightmost app
\* segment of its file, and of nothing before it
PathStartsAfterRightmostApp(row) ==
    LET p == FileOfRow(row)
        kept == SelectSeq(SubSeq(p, RightmostApp(p) + 1, Len(p) - 1), NotExcluded)
    IN /\ RightmostApp(p) # 0
       /\ row.path[1] = "/"
       /\ TokensOf(row.path) = [j \in 1..Len(kept) |-> transformSegment(kept[j])]

InNeitherTable(p) ==
    /\ \A i \in DOMAIN pages.rows : pages.rows[i].file # NormalizedFile(p)
    /\ \A i \in DOMAIN routes.rows : routes.rows[i].file # NormalizedFile(p)

\* C16: the routing root of a file is the rightmost segment of its path
\* relative to the scan root that is literally app: only the segments after
\* it contribute to the route path, and a page or route file whose path has
\* no app segment is in neither table, while the tables are still returned.
ClaimC16 ==
    /\ \A i \in DOMAIN pages.rows : PathStartsAfterRightmostApp(pages.rows[i])
    /\ \A i \in DOMAIN routes.rows : PathStartsAfterRightmostApp(routes.rows[i])
    /\ \A p \in DOMAIN files : RightmostApp(p) = 0 => InNeitherTable(p)
    /\ \A i \in DOMAIN pages.rows :
          pages.rows[i].file = <<"a","p","p","/","s","h","o","p","/","a","p","p","/","i","t","e","m","/","p","a","g","e",".","t","s","x">>
             => pages.rows[i].path = <<"/","i","t","e","m">>

\* both tables were returned for a tree with a view and a handler below a
\* nested app directory and a page file outside any app directory
WitnessC16 ==
    /\ pages.returned
    /\ routes.returned
    /\ <<<<"l","i","b">>, <<"p","a","g","e",".","t","s","x">>>> \in DOMAIN files
    /\ \E i \in DOMAIN pages.rows : pages.rows[i].path = <<"/","i","t","e","m">>
    /\ \E i \in DOMAIN routes.rows : routes.rows[i].path = <<"/","a","p","i","/","x">>
    /\ Len(pages.rows) = 1

\* the directory segments of p after its rightmost app segment that are
\* neither groups nor slots
RetainedSegments(p) ==
    SelectSeq(SubSeq(p, RightmostApp(p) + 1, Len(p) - 1), NotExcluded)

\* C17: a route file is a row of the handler table only if, once group and
\* slot segments are dropped, the first segment after the routing root is
\* exactly api; a route file directly in the routing root, or one whose first
\* retained segment is anything else, is never a row, whatever it exports.
ClaimC17 ==
    /\ \A i \in DOMAIN routes.rows :
          LET kept == RetainedSegments(FileOfRow(routes.rows[i]))
          IN /\ Len(kept) > 0
             /\ kept[1] = <<"a","p","i">>
    /\ \A i \in DOMAIN routes.rows :
          routes.rows[i].file \notin
             {<<"a","p","p","/","r","o","u","t","e",".","t","s">>,
              <<"a","p","p","/","(","g",")","/","x","/","a","p","i","/","r","o","u","t","e",".","t","s">>}

\* the handler table was returned for a tree with a route file directly in
\* the routing root, one whose first retained segment is not api, and one
\* behind a group and a slot that is a row
WitnessC17 ==
    /\ routes.returned
    /\ <<<<"a","p","p">>, <<"r","o","u","t","e",".","t","s">>>> \in DOMAIN files
    /\ <<<<"a","p","p">>, <<"(","g",")">>, <<"x">>, <<"a","p","i">>, <<"r","o","u","t","e",".","t","s">>>> \in DOMAIN files
    /\ Len(routes.rows) = 1
    /\ routes.rows[1].file = <<"a","p","p","/","(","g",")","/","@","s","/","a","p","i","/","r","o","u","t","e",".","t","s">>
    /\ routes.rows[1].path = <<"/","a","p","i">>

-----------------------------------------------------------------------------
(* Properties of the method extractor                                      *)

\* the verbs the handler table reports for the file, none when it has no row
ReportedVerbs(p) ==
    UNION {Range(routes.rows[i].methods) :
             i \in {j \in DOMAIN routes.rows :
                      routes.rows[j].file = NormalizedFile(p)}}

\* the name a specifier exports: its alias when it has one
EffectiveName(s) == IF s.alias = <<>> THEN s.original ELSE s.alias

\* C18: in a named-export list the extractor takes the alias as the exported
\* name when there is one and the original name otherwise:
\* export { handler as GET } contributes GET, export { GET as handler }
\* contributes no verb.
ClaimC18 ==
    routes.returned =>
       /\ \A list \in SpecifierLists :
             files[ExtractFile] = ExportListText(list)
                => ReportedVerbs(ExtractFile)
                     = {EffectiveName(list[j]) : j \in DOMAIN list}
                         \cap HTTP_METHODS
       /\ files[ExtractFile] = <<"e","x","p","o","r","t"," ","{"," ","h","a","n","d","l","e","r"," ","a","s"," ","G","E","T"," ","}","\n">>
             => ReportedVerbs(ExtractFile) = {GET}
       /\ files[ExtractFile] = <<"e","x","p","o","r","t"," ","{"," ","G","E","T"," ","a","s"," ","h","a","n","d","l","e","r"," ","}","\n">>
             => routes.rows = <<>>

\* the table was returned for a list that renames a verb away and renames a
\* handler to a verb
WitnessC18 ==
    /\ routes.returned
    /\ files[ExtractFile] = ExportListText(
          <<[original |-> GET, alias |-> handler],
            [original |-> handler, alias |-> POST]>>)
    /\ ReportedVerbs(ExtractFile) = {POST}

\* the text from place i on, with the characters of its comments blanked,
\* by a scan that knows code, string literals, line comments and block
\* comments apart; i is a place in code
RECURSIVE Blanked(_, _)
Blanked(s, i) ==
    LET OrEnd(j) == IF j = 0 THEN Len(s) + 1 ELSE j
        Spaces(n) == [k \in 1..n |-> " "]
        \* the next place where code gives way to a comment or a string
        stop == OrEnd(Least({j \in i..Len(s) :
                    \/ s[j] \in {"\"", "'"}
                    \/ j < Len(s) /\ s[j] = "/" /\ s[j + 1] \in {"/", "*"}}))
        \* where the string opened at stop closes
        closing == OrEnd(Least({j \in (stop + 1)..Len(s) :
                       s[j] = s[stop] /\ s[j - 1] # "\\"}))
        \* the line break that ends the line comment opened at stop
        lineEnd == OrEnd(Least({j \in (stop + 2)..Len(s) : s[j] = "\n"}))
        \* the first character behind the block comment opened at stop
        blockEnd == OrEnd(Least({j \in (stop + 3)..Len(s) :
                        s[j - 1] = "*" /\ s[j] = "/"})) + 1
        code == SubSeq(s, i, stop - 1)
    IN IF i > Len(s) THEN <<>>
       ELSE IF stop > Len(s) THEN code
       ELSE IF s[stop] # "/"
       THEN code \o SubSeq(s, stop, IF closing > Len(s) THEN Len(s) ELSE closing)
                 \o Blanked(s, closing + 1)
       ELSE IF s[stop + 1] = "/"
       THEN code \o Spaces(lineEnd - stop) \o Blanked(s, lineEnd)
       ELSE code \o Spaces((IF blockEnd > Len(s) THEN Len(s) + 1 ELSE blockEnd) - stop)
                 \o Blanked(s, blockEnd)

\* the verbs of the exports that stand in code, outside every comment
VerbsInCode(text) ==
    Range(RegisterMatches(<<>>,
                          <<"function", "variable", "destructured", "named">>,
                          Blanked(text, 1)))

\* C19: before verbs are extracted exactly the characters inside a line or
\* block comment are blanked and code and string literals pass unchanged, so
\* an export written inside a comment is never reported and // or /* inside
\* a string never hides or alters an export that follows it: the verbs
\* reported for a file are those of the exports that stand in its code.
ClaimC19 ==
    routes.returned =>
        ReportedVerbs(ExtractFile) = VerbsInCode(files[ExtractFile])

-----------------------------------------------------------------------------
(* Properties of the text a mutation writes                                *)

EndsWithOneNewline(text) ==
    /\ Len(text) > 0
    /\ text[Len(text)] = "\n"
    /\ Len(text) > 1 => text[Len(text) - 1] # "\n"

HasRunOfThreeNewlines(text) ==
    \E j \in 1..(Len(text) - 2) :
        text[j] = "\n" /\ text[j + 1] = "\n" /\ text[j + 2] = "\n"

\* C20: after every successful removal the written file has no run of three
\* or more consecutive newlines and ends with exactly one newline; after
\* every successful addition the written file ends with exactly one newline.
ClaimC20 ==
    \A k \in DOMAIN history :
        Succeeded(history[k]) =>
           /\ history[k].result.wrote
           /\ EndsWithOneNewline(history[k].result.written)
           /\ history[k].op = "remove"
                => ~HasRunOfThreeNewlines(history[k].result.written)

\* a handler was added behind two statements and the first statement was
\* then removed, both with success
WitnessC20 ==
    /\ Len(history) = 2
    /\ history[1].op = "add" /\ Succeeded(history[1])
    /\ history[2].op = "remove" /\ Succeeded(history[2])
    /\ history[2].method # history[1].method
    /\ content = history[2].result.written

-----------------------------------------------------------------------------
(* Properties of concurrent mutation calls                                 *)

\* the finished call k read the file before the finished call j wrote it,
\* and wrote it after j did
ReadBeforeWriteOf(k, j) ==
    /\ j < k
    /\ history[j].result.wrote
    /\ history[k].result.wrote
    /\ history[k].readAt < Cardinality({i \in 1..j : history[i].result.wrote})

\* C21: addHttpMethod and removeHttpMethod take no lock and each makes one
\* read of the whole file followed by one write of the whole file: what a
\* call writes is made of the text it read alone, the file holds what the
\* latest write put there, and when two calls both read before either
\* writes, the later write replaces the earlier one, so that both calls
\* succeed while the file shows the change of one of them only.
ClaimC21 ==
    /\ \A k \in DOMAIN history :
          history[k].result.wrote =>
             history[k].result.written =
                Outcome(history[k].op, history[k].before, history[k].method).written
    /\ LET latest == Greatest({k \in DOMAIN history : history[k].result.wrote})
       IN latest # 0 => content = history[latest].result.written
    /\ \A j, k \in DOMAIN history :
          (ReadBeforeWriteOf(k, j) /\ k = Len(history)
              /\ history[j].op = "add" /\ history[k].op = "add"
              /\ toUpperCase(history[j].method) # toUpperCase(history[k].method)
              /\ toUpperCase(history[j].method) \notin VerbsOf(history[k].before))
             => toUpperCase(history[j].method) \notin VerbsOf(content)

\* a call that adds GET and a call that adds POST to a file that exports
\* neither both read before either wrote and both succeeded; the file
\* exports POST only
WitnessC21 ==
    /\ Len(history) = 2
    /\ Succeeded(history[1]) /\ Succeeded(history[2])
    /\ ReadBeforeWriteOf(2, 1)
    /\ history[1].op = "add" /\ history[1].method = GET
    /\ history[2].op = "add" /\ history[2].method = POST
    /\ history[1].before = SourceNoVerb
    /\ VerbsOf(content) = {POST}

-----------------------------------------------------------------------------
(* Properties of overlapping discovery requests                            *)

\* C22: route discovery and method extraction keep no state between calls:
\* the verbs extracted from a file depend on its text alone, whatever calls
\* were made before and whatever discovery calls are in progress at the
\* same time, so every handler table returned is the one the files give,
\* and between the steps of the requests every pattern is back at its start.
ClaimC22 ==
    /\ \A p \in DOMAIN lastIndex : lastIndex[p] = 0
    /\ \A c \in DOMAIN calls :
          /\ calls[c].phase = "done"
                => calls[c].result = getApiRoutes(files, calls[c].order)
          /\ calls[c].phase = "scanning"
                => calls[c].rows =
                      CollectRoutes(files,
                          SubSeq(calls[c].order, 1,
                                 Len(calls[c].order) - Len(calls[c].pending)))

\* a request has returned two rows, one of them with two verbs, while
\* another is in its loop with one file done and one to go, and the view
\* table has been built
WitnessC22 ==
    /\ calls[1].phase = "scanning"
    /\ Len(calls[1].rows) = 1
    /\ Len(calls[1].pending) = 1
    /\ calls[2].phase = "done"
    /\ Len(calls[2].result) = 2
    /\ \E i \in 1..2 : Len(calls[2].result[i].methods) = 2
    /\ pages.returned

-----------------------------------------------------------------------------
(* Properties of the tree walker                                           *)

SkippedNames ==
    {<<"n","o","d","e","_","m","o","d","u","l","e","s">>, <<".","g","i","t">>,
     <<".","n","e","x","t">>, <<"d","i","s","t">>, <<"b","u","i","l","d">>,
     <<".","t","u","r","b","o">>, <<".","v","e","r","c","e","l">>,
     <<"o","u","t">>, <<"c","o","v","e","r","a","g","e">>}

\* the row stands for a regular file of the tree none of whose directories,
\* at any depth, has a name of the skip set
OfRegularFileOutsideSkipped(row) ==
    \E p \in DOMAIN files :
        /\ NormalizedFile(p) = row.file
        /\ \A k \in 1..(Len(p) - 1) : p[k] \notin SkippedNames

\* C23: the tree walker never yields a file that lies beneath a directory,
\* at any depth below the scan root, whose name is in the skip set
\* (node_modules, .git, .next, dist, build, .turbo, .vercel, out, coverage),
\* and it yields only regular files: every file the walks hand on and every
\* row of the two tables is such a file.
ClaimC23 ==
    /\ \A listed \in findRouteFiles(files) \cup findPageFiles(files) :
          \A i \in DOMAIN listed :
             /\ listed[i] \in DOMAIN files
             /\ \A k \in 1..(Len(listed[i]) - 1) : listed[i][k] \notin SkippedNames
    /\ \A i \in DOMAIN routes.rows : OfRegularFileOutsideSkipped(routes.rows[i])
    /\ \A i \in DOMAIN pages.rows : OfRegularFileOutsideSkipped(pages.rows[i])

\* both tables were returned, each with one row, for a tree that has a
\* route file two levels below a .git directory that is itself below app/api
WitnessC23 ==
    /\ routes.returned /\ Len(routes.rows) = 1
    /\ pages.returned /\ Len(pages.rows) = 1
    /\ pages.rows[1].path = <<"/","o","u","t","e","r">>
    /\ <<app, api, <<"x">>, <<".","g","i","t">>, <<"y">>, <<"r","o","u","t","e",".","t","s">>>> \in DOMAIN files

-----------------------------------------------------------------------------
(* Properties of the inspector's endpoints                                 *)

\* the location a request's file path resolves to lies in the target
\* directory: the directory itself or something below it
LiesInTarget(file) == IsPrefix(targetDirectory, resolve(targetDirectory, file))

\* C24: every mutating endpoint of the inspector answers 403 and performs
\* no file operation when the file path of the request resolves to a
\* location outside the target directory, and performs the operation when
\* it lies inside; a sibling directory whose name merely begins with the
\* name of the target directory (../app-copy/route.ts against a target that
\* ends in /app) counts as outside.
ClaimC24 ==
    \A k \in DOMAIN history :
        /\ ~LiesInTarget(history[k].file)
              => /\ history[k].status = 403
                 /\ history[k].touched = <<>>
        /\ LiesInTarget(history[k].file)
              => /\ history[k].status # 403
                 /\ history[k].touched # <<>>

-----------------------------------------------------------------------------
(* Properties of the scanners                                              *)

Quotes == {"'", "\"", Backquote}

ActiveStates(st) ==
    {name \in {"lineComment", "blockComment", "single", "double", "template"} :
        CASE name = "lineComment" -> st.inLineComment
          [] name = "blockComment" -> st.inBlockComment
          [] name = "single" -> st.inSingle
          [] name = "double" -> st.inDouble
          [] OTHER -> st.inTemplate}

\* the string state a quote character belongs to
StateOfQuote(char) ==
    CASE char = "'" -> "single"
      [] char = "\"" -> "double"
      [] OTHER -> "template"

\* the turn looks at a quote that is inside a comment, inside a string of
\* another kind, or right behind a backslash
LooksAtInertQuote ==
    /\ scan.running
    /\ scan.i < Len(content)
    /\ content[scan.i + 1] \in Quotes
    /\ \/ scan.inLineComment
       \/ scan.inBlockComment
       \/ ActiveStates(scan) \ {StateOfQuote(content[scan.i + 1])} # {}
       \/ At(content, scan.i) = "\\"

\* C25: at every position of a scan of findMatchingBrace and of
\* findStatementEnd at most one of the states line comment, block comment,
\* single-quoted, double-quoted and template string is active, and a turn that
\* looks at a quote inside a comment, inside a string of another kind or right
\* behind a backslash leaves the five states as they are
ClaimC25 ==
    /\ [](Cardinality(ActiveStates(scan)) <= 1)
    /\ [][LooksAtInertQuote => ActiveStates(scan') = ActiveStates(scan)]_vars

\* a double-quoted string is open, the scan has just passed a single quote
\* in it, and the text holds a quote right behind a backslash
WitnessC25 ==
    /\ scan.running
    /\ scan.i >= 2
    /\ content[scan.i] = "'"
    /\ ActiveStates(scan) = {"double"}
    /\ \E k \in 1..Len(content) : content[k] = "\\" /\ At(content, k + 1) \in Quotes

\* the character-by-character scan returns what the scanners of
\* removeHttpMethod return
ScanAgrees ==
    ~scan.running =>
        IF scan.kind = "brace"
        THEN scan.result + 1 = findMatchingBrace(content, 1)
        ELSE scan.result = findStatementEnd(content, 1)

-----------------------------------------------------------------------------
(* Properties of segments with malformed brackets                          *)

HasBracket(s) == \E k \in DOMAIN s : s[k] \in {"[", "]"}

\* s is open, a non-empty name without brackets, close; a name does not
\* begin with the three dots of the catch-all forms
IsBracketForm(s, open, close) ==
    /\ startsWith(s, open)
    /\ endsWith(s, close)
    /\ Len(s) > Len(open) + Len(close)
    /\ LET name == Slice(s, Len(open) + 1, Len(s) - Len(close))
       IN ~HasBracket(name) /\ ~startsWith(name, <<".",".",".">>)

WellFormedBrackets(s) ==
    \/ IsBracketForm(s, <<"[">>, <<"]">>)
    \/ IsBracketForm(s, <<"[",".",".",".">>, <<"]">>)
    \/ IsBracketForm(s, <<"[","[",".",".",".">>, <<"]","]">>)

\* C26: a segment with brackets that is not exactly [name], [...name] or
\* [[...name]] with a non-empty name free of brackets (such as [[x]], [[...x]
\* and [...]) is a static segment: its token is the segment text unchanged.
ClaimC26 ==
    (HasBracket(segment) /\ ~WellFormedBrackets(segment)) => token = segment

-----------------------------------------------------------------------------
(* Properties that relate removeHttpMethod to the method extractor         *)

\* C27: after a successful RemoveMethod of a verb the extractor does not
\* report the verb for the file written, also when the file bound the verb
\* through more than one export shape or more than one statement.
ClaimC27 ==
    \A k \in DOMAIN history :
        (/\ history[k].op = "remove"
         /\ Succeeded(history[k]))
           => toUpperCase(history[k].method)
                 \notin VerbsOf(history[k].result.written)

\* C28: RemoveMethod of a verb succeeds if and only if the extractor reports
\* the verb for the file as it is before the call.
ClaimC28 ==
    \A k \in DOMAIN history :
        history[k].op = "remove"
           => (Succeeded(history[k])
                 <=> toUpperCase(history[k].method) \in VerbsOf(history[k].before))

-----------------------------------------------------------------------------
(* Properties of the creation of loading and error files                   *)

CreateEndpoints == {"POST /pages/loading", "POST /pages/error"}

\* the requests answered so far that created their file
Created == {k \in DOMAIN history :
               history[k].op \in CreateEndpoints /\ history[k].status = 200}

\* C29: createLoadingFile and createErrorFile never write over a file that
\* exists, and of the create calls for one target, however they interleave,
\* at most one succeeds.
ClaimC29 ==
    /\ \A k \in Created : ~history[k].overwrote
    /\ \A j, k \in Created :
          history[j].fullPath = history[k].fullPath => j = k

-----------------------------------------------------------------------------
(* Properties of the walk over trees with symbolic links                   *)

\* the directories the calls of readdir so far have listed
ListedDirectories == [k \in DOMAIN walk.listed |-> RealPath(links, walk.listed[k])]

\* the depth of the directory of the view file below its routing root
DepthBelowRoot == Len(fallback.directory) - Len(fallback.appRootPath)

\* C30: the walk of findPageFiles ends on every tree, also one with symbolic
\* links that point back to a directory above them: it lists no directory
\* twice and never lists through a link; and every fallback resolution ends
\* after at most as many turns of its loop as the directory of the view file
\* lies below the routing root, plus one.
ClaimC30 ==
    /\ [](\A j, k \in DOMAIN walk.listed :
             ListedDirectories[j] = ListedDirectories[k] => j = k)
    /\ [](\A k \in DOMAIN walk.listed :
             \A n \in 1..Len(walk.listed[k]) :
                 SubSeq(walk.listed[k], 1, n) \notin DOMAIN links)
    /\ [](fallback.turns <= DepthBelowRoot + 1)
    /\ <>(walk.stack = <<>>)
    /\ (fallback.phase = "running") ~> (fallback.phase = "returned")

\* the walk has ended on a tree with a link in a directory it listed, and a
\* fallback resolution has ended after depth + 1 turns, two or more
WitnessC30 ==
    /\ walk.stack = <<>>
    /\ \E l \in DOMAIN links : dirname(l) \in Range(walk.listed)
    /\ Len(walk.listed) >= 3
    /\ fallback.phase = "returned"
    /\ fallback.turns = DepthBelowRoot + 1
    /\ fallback.turns >= 2

\* the walk step by step ends with a results array of findPageFiles, and the
\* loop turn by turn returns what resolveFallbackInfo returns
WalkAgrees ==
    /\ walk.stack = <<>> => walk.results \in findPageFiles(files)
    /\ fallback.phase = "returned"
          => fallback.result = resolveFallbackInfo(files, fallback.directory,
                                                   fallback.basename,
                                                   fallback.appRootPath)

====
